---- MODULE Spec2Model ----
(***************************************************************************)
(* State-machine model of parts of kraftkit:                               *)
(*   - Project.AssignIPs                    (compose package, SpecIP)      *)
(*   - Project.ServicesOrderedByDependencies and                           *)
(*     Project.ServicesReversedByDependencies (compose package, SpecDeps)  *)
(*   - the process tree of tui/processtree  (SpecTree)                     *)
(*   - the OCI manifest                     (SpecManifest)                 *)
(*   - the Dockerfile initrd's Build        (SpecInitrd)                   *)
(*   - kraft compose create and build       (SpecCreate)                   *)
(*   - kraft compose start                  (SpecStart)                    *)
(*   - Project.Validate                     (SpecValidate)                 *)
(*   - the xenstore watcher                 (SpecXen)                      *)
(***************************************************************************)
EXTENDS Integers, Sequences, FiniteSets, TLC

VARIABLES
    \* ---- AssignIPs ----
    networks,      \* project.Networks: name -> joined IPAM configuration
    attach,        \* service.Networks as loaded: service -> network -> attachment
    usedAddresses, \* usedAddresses: network -> set of address texts
    ipv4Address,   \* Ipv4Address texts written by the assignment pass
    mu,            \* owner of the mutex, or NoOwner
    ipPc,          \* position of each service's transform goroutine
    todo,          \* networks of the service its range loop has not visited yet
    curNet,        \* network of the attachment being assigned
    scanIP,        \* local ip after the scan loop
    scanNetIP,     \* subnet.IP after the scan loop
    phase,         \* position of AssignIPs itself
    ipErr,         \* error AssignIPs returns
    \* ---- Services{Ordered,Reversed}ByDependencies ----
    dependsOn,     \* project.Services[a].DependsOn[b]: "none", "optional", "required"
    services,      \* the services argument (a subset of the project's services)
    expand,        \* the expand argument
    reversed,      \* TRUE for ServicesReversedByDependencies
    added,         \* the added map
    ordered,       \* orderedServices / reversedServices
    callStack,     \* the active calls of the recursive closure, innermost last
    rangeTodo,     \* services the outer range loop has not visited yet
    depPc,         \* position of the function
    \* ---- process tree ----
    parentOf,      \* the tree: node -> its parent, 0 for a root
    parallel,      \* pt.parallel
    failFast,      \* pt.failFast
    status,        \* item.status of every node
    queued,        \* commands of a node handed to the runtime and not yet begun
    inflight,      \* commands of a node between line 327 and the end of line 338
    sending,       \* commands of a node blocked on pt.channel <- item
    treeErr,       \* pt.err: the node whose error it holds, 0 for nil
    quitting,      \* pt.quitting
    treePc,        \* position of the program
    timeout,       \* pt.timeout, 0 when no timeout is configured
    overdue,       \* nodes whose running worker has exceeded pt.timeout
    ctxCancelled,  \* whether pt.ctx, the inherited context, is cancelled
    \* ---- OCI manifest ----
    saved,         \* manifest.saved
    config,        \* manifest.config (the image configuration)
    mfst,          \* manifest.manifest: Nil or the manifest generated by Save
    desc,          \* manifest.desc: Nil or the descriptor made by Save
    layers,        \* manifest.layers
    annotations,   \* manifest.annotations
    store,         \* what the storage handler holds, by digest
    savePc,        \* position of the caller and of a running Save
    locals,        \* configBlob and manifestJson of the running Save
    pending,       \* layers whose push goroutine has not run yet
    egErr,         \* first error of the error group
    answers,       \* answers of SaveDescriptor during the running Save
    writes,        \* blobs the running (or last) Save stored, in order
    ret,           \* what the last Save returned
    prevDesc,      \* the descriptor the caller got from the Save before
    ops,           \* number of mutating calls so far
    saves,         \* number of Save calls so far
    \* ---- Dockerfile initrd ----
    image,         \* img.Metadata.Config.Config: Entrypoint and Cmd
    sourceFile,    \* which of the two versions of Build runs
    args,          \* initrd.args
    tarFile,       \* the entries of the tarball written by the build
    fileCount,     \* the fileCount map of the counting pass
    cpioOut,       \* the headers and data handed to the CPIO writer
    buildPc,       \* position of Build
    tarPos,        \* index of the next tar entry of the running pass
    \* ---- compose create / compose build ----
    command,       \* "create" or "build"
    project,       \* the loaded project: networks, volumes, services
    live,          \* what exists on the platform: networks, volumes, machines
    listed,        \* what the List calls of the controllers answer
    projectMachines, \* projectMachines
    projectNetworks, \* projectNetworks
    projectVolumes,  \* projectVolumes
    recorded,      \* the states handed to composeController.Update, in order
    orderedNetworks, \* orderedNetworks
    orderedServices, \* orderedServices (compose build: services)
    crPos,         \* index of the next element of the running loop
    crPc,          \* position of Run
    crLog,         \* the calls Run made so far, in order
    crErr,         \* what Run returns
    \* ---- compose start ----
    machines,      \* machines.Items: state of the machine of every service
    machinesToStart, \* machinesToStart
    started,       \* the list handed to kernelStartOptions.Run
    startPc,       \* position of Run
    \* ---- Validate ----
    valProject,    \* the project Validate works on
    host,          \* answers of mplatform.Detect and ukarch.HostArchitecture
    valPc,         \* position of Validate
    valErr,        \* what Validate returns
    \* ---- xenstore watcher ----
    domID,         \* w.domID, which fixes w.xsPath and w.token
    xsPc,          \* position of the caller of Watch and Close
    goPc,          \* position of the goroutine started by Watch
    connOpen,      \* whether w.conn is open
    closeSignalOpen, \* whether w.closeSignal is open
    packets,       \* number of packets and errors read by the goroutine
    events         \* number of events received from the event channel

ipVars == <<networks, attach, usedAddresses, ipv4Address, mu, ipPc, todo,
            curNet, scanIP, scanNetIP, phase, ipErr>>

depVars == <<dependsOn, services, expand, reversed, added, ordered, callStack,
             rangeTodo, depPc>>

treeVars == <<parentOf, parallel, failFast, status, queued, inflight, sending,
              treeErr, quitting, treePc, timeout, overdue, ctxCancelled>>

manVars == <<saved, config, mfst, desc, layers, annotations, store, savePc,
             locals, pending, egErr, answers, writes, ret, prevDesc, ops, saves>>

initrdVars == <<image, sourceFile, args, tarFile, fileCount, cpioOut, buildPc,
                tarPos>>

createVars == <<command, project, live, listed, projectMachines,
                projectNetworks, projectVolumes, recorded, orderedNetworks,
                orderedServices, crPos, crPc, crLog, crErr>>

startVars == <<machines, machinesToStart, started, startPc>>

valVars == <<valProject, host, valPc, valErr>>

xenVars == <<domID, xsPc, goPc, connOpen, closeSignalOpen, packets, events>>

vars == <<ipVars, depVars, treeVars, manVars, initrdVars, createVars,
          startVars, valVars, xenVars>>

(***************************************************************************)
(* Bounds                                                                  *)
(***************************************************************************)
\* width of an address in bits (4 bytes in the program)
AddrBits == 3
\* largest number of depends_on entries in a project
MaxDependsOn == 4
\* largest domain id of a watcher, and number of packets the store sends
MaxDomID == 2
MaxPackets == 3
\* number of nodes of a process tree
NumNodes == 3
\* longest timeout of a process tree, in ticks
MaxTimeout == 1

\* the dependency functions at rest (while another part of the program runs)
DepIdle ==
    /\ dependsOn = <<>>
    /\ services = {}
    /\ expand = FALSE
    /\ reversed = FALSE
    /\ added = {}
    /\ ordered = <<>>
    /\ callStack = <<>>
    /\ rangeTodo = {}
    /\ depPc = "idle"

\* the process tree at rest (while another part of the program runs)
TreeIdle ==
    /\ parentOf = <<>>
    /\ parallel = FALSE
    /\ failFast = FALSE
    /\ status = <<>>
    /\ queued = <<>>
    /\ inflight = <<>>
    /\ sending = <<>>
    /\ treeErr = 0
    /\ quitting = FALSE
    /\ treePc = "idle"
    /\ timeout = 0
    /\ overdue = {}
    /\ ctxCancelled = FALSE

\* a nil pointer, and a pointer to a value
Nil == <<>>
Some(x) == <<x>>

\* no manifest (while another part of the program runs)
ManIdle ==
    /\ saved = FALSE
    /\ config = <<>>
    /\ mfst = Nil
    /\ desc = Nil
    /\ layers = <<>>
    /\ annotations = {}
    /\ store = <<>>
    /\ savePc = "none"
    /\ locals = <<>>
    /\ pending = {}
    /\ egErr = "nil"
    /\ answers = {}
    /\ writes = <<>>
    /\ ret = <<>>
    /\ prevDesc = Nil
    /\ ops = 0
    /\ saves = 0

\* no Build running (while another part of the program runs)
InitrdIdle ==
    /\ image = <<>>
    /\ sourceFile = "none"
    /\ args = <<>>
    /\ tarFile = <<>>
    /\ fileCount = <<>>
    /\ cpioOut = <<>>
    /\ buildPc = "idle"
    /\ tarPos = 0

\* no compose create or build running
CreateIdle ==
    /\ command = "none"
    /\ project = <<>>
    /\ live = <<>>
    /\ listed = <<>>
    /\ projectMachines = <<>>
    /\ projectNetworks = <<>>
    /\ projectVolumes = <<>>
    /\ recorded = <<>>
    /\ orderedNetworks = <<>>
    /\ orderedServices = <<>>
    /\ crPos = 0
    /\ crPc = "idle"
    /\ crLog = <<>>
    /\ crErr = "nil"

\* no compose start running
StartIdle ==
    /\ machines = <<>>
    /\ machinesToStart = <<>>
    /\ started = <<>>
    /\ startPc = "idle"

\* no Validate running
ValidateIdle ==
    /\ valProject = <<>>
    /\ host = <<>>
    /\ valPc = "idle"
    /\ valErr = "nil"

\* no watcher (while another part of the program runs)
XenIdle ==
    /\ domID = 0
    /\ xsPc = "idle"
    /\ goPc = "none"
    /\ connOpen = FALSE
    /\ closeSignalOpen = FALSE
    /\ packets = 0
    /\ events = 0

RECURSIVE Pow2(_)
Pow2(n) == IF n = 0 THEN 1 ELSE 2 * Pow2(n - 1)

AddrSpace == Pow2(AddrBits)
Addrs == 0 .. (AddrSpace - 1)

NetworkNames == {"front", "back"}
ServiceNames == {"web", "db", "cache"}

(***************************************************************************)
(* Address texts.  The program keys usedAddresses by strings: the gateway  *)
(* and the static addresses as the compose file spells them, everything    *)
(* else as net.IP.String() prints it.  A text is <<form, address>>: the    *)
(* dotted form is what String() prints, the mapped form is the IPv4-mapped *)
(* IPv6 spelling ("::ffff:a.b.c.d") that net.ParseIP accepts as well.      *)
(***************************************************************************)
NoText == <<>>
NotAttached == <<"none">>
Forms == {"dotted", "mapped"}
Dotted(a) == <<"dotted", a>>

\* net.IP.String
String(ip) == Dotted(ip)

\* net.ParseIP (of a text that parses)
ParseIP(text) == text[2]

\* size of the host part of a subnet with the given prefix length
HostSize(bits) == Pow2(AddrBits - bits)

\* ip & mask
Masked(ip, bits) == ip - (ip % HostSize(bits))

\* net.ParseCIDR: the address as written, and the network with the masked IP
ParseCIDR(cidr) ==
    [ip |-> cidr[1], net |-> [IP |-> Masked(cidr[1], cidr[2]), Bits |-> cidr[2]]]

\* net.IPNet.Contains: compares the masked network number with the masked ip
Contains(ipnet, ip) == Masked(ipnet.IP, ipnet.Bits) = Masked(ip, ipnet.Bits)

\* iputils.IncreaseIP: add one to the last byte, carrying into the next
IncreaseIP(ip) == (ip + 1) % AddrSpace

(***************************************************************************)
(* The scan loop of the assignment pass (lines 241-246).  ip := subnet.IP  *)
(* copies the slice header only, and IncreaseIP increments in place, so    *)
(* every increment is an increment of subnet.IP too.  The result is the    *)
(* pair <<subnet.IP, ip>> when the loop ends.                              *)
(***************************************************************************)
RECURSIVE ScanLoop(_, _, _)
ScanLoop(subnet, ip, used) ==
    IF Contains(subnet, ip) /\ String(ip) \in used
    THEN LET next == IncreaseIP(ip)
         IN  ScanLoop([subnet EXCEPT !.IP = next], next, used)
    ELSE <<subnet.IP, ip>>

(***************************************************************************)
(* Inputs of AssignIPs                                                     *)
(***************************************************************************)
NoIpam == [ipam |-> FALSE, subnet |-> <<0, 0>>, gateway |-> NoText,
           external |-> FALSE]

PrefixBits == {AddrBits - 2, AddrBits - 1}
CidrAddrs == {2, 5}

\* gateways tried for a subnet: none, the first host address in both
\* spellings, and the first address past the subnet
GatewayTexts(cidr) ==
    LET base == ParseCIDR(cidr).net.IP
    IN  {NoText, Dotted((base + HostSize(cidr[2])) % AddrSpace)} \cup
        {<<f, IncreaseIP(base)>> : f \in Forms}

\* external networks tried: one without and one with an IPAM configuration
ExternalConfigs ==
    {[NoIpam EXCEPT !.external = TRUE],
     [ipam |-> TRUE, subnet |-> <<2, AddrBits - 1>>, gateway |-> NoText,
      external |-> TRUE]}

FrontConfigs ==
    {NoIpam} \cup
    UNION {{[ipam |-> TRUE, subnet |-> <<a, b>>, gateway |-> g,
              external |-> FALSE] :
               g \in GatewayTexts(<<a, b>>)} :
           a \in CidrAddrs, b \in PrefixBits} \cup
    ExternalConfigs

BackConfigs ==
    {NoIpam, [ipam |-> TRUE, subnet |-> <<0, AddrBits - 1>>, gateway |-> NoText,
              external |-> FALSE]}

\* an attachment: none, one without a static address, one with a static
\* address in either spelling (line 207 takes the text as it is written)
FrontAttachments == {NotAttached, NoText, Dotted(3), <<"mapped", 3>>}
BackAttachments == {NotAttached, NoText}
\* the services that may attach to the back network
BackServices == {"web", "db"}

NoOwner == "nobody"
NoNet == "nonet"
\* no address yet: a value outside Addrs
NoIP == AddrSpace

(***************************************************************************)
(* AssignIPs                                                               *)
(***************************************************************************)
HasStatic(s, n) == attach[s][n] # NotAttached /\ attach[s][n] # NoText

\* lines 135-137: an external network and a network without IPAM
\* configuration are passed over; the others get an entry in usedAddresses
\* (line 183)
Managed(cfg) == ~cfg.external /\ cfg.ipam

\* lines 168-181: the gateway, when given, must parse and lie in the subnet
GatewayOK(cfg) ==
    IF cfg.gateway = NoText
    THEN TRUE
    ELSE Contains(ParseCIDR(cfg.subnet).net, ParseIP(cfg.gateway))

\* lines 169-170 and 183-185: the reserved texts of a network
Reserved(cfg) ==
    LET parsed == ParseCIDR(cfg.subnet)
        gateway == IF cfg.gateway = NoText THEN String(parsed.ip) ELSE cfg.gateway
    IN  {gateway, String(parsed.net.IP)}

\* lines 192-210: the static addresses of the services on a network
Statics(n) == {attach[s][n] : s \in {x \in ServiceNames : HasStatic(x, n)}}

\* lines 169-170 and 187-188: the joined configuration is written back to
\* the project, an omitted gateway replaced by the address the subnet is
\* written with
Defaulted(cfg) ==
    IF Managed(cfg) /\ cfg.gateway = NoText
    THEN [cfg EXCEPT !.gateway = String(ParseCIDR(cfg.subnet).ip)]
    ELSE cfg

\* line 207: usedAddresses[name] is written for a static address on a
\* network with IPAM configuration; for an external one the map is nil
StaticOnNilMap(s, n) ==
    HasStatic(s, n) /\ networks[n].ipam /\ ~Managed(networks[n])

\* AssignIPs at rest (while another part of the program runs)
IPIdle ==
    /\ networks = <<>>
    /\ attach = <<>>
    /\ usedAddresses = <<>>
    /\ ipv4Address = <<>>
    /\ mu = NoOwner
    /\ ipPc = <<>>
    /\ todo = <<>>
    /\ curNet = <<>>
    /\ scanIP = <<>>
    /\ scanNetIP = <<>>
    /\ phase = "idle"
    /\ ipErr = "nil"

\* the part of the state AssignIPs does not touch
IPOnly ==
    UNCHANGED <<depVars, treeVars, manVars, initrdVars, createVars, startVars,
                valVars, xenVars>>

IPInit ==
    /\ networks \in [NetworkNames -> FrontConfigs \cup BackConfigs]
    /\ networks["front"] \in FrontConfigs
    /\ networks["back"] \in BackConfigs
    /\ attach \in [ServiceNames -> [NetworkNames -> FrontAttachments]]
    /\ \A s \in ServiceNames : attach[s]["back"] \in BackAttachments
    /\ \A s \in ServiceNames \ BackServices : attach[s]["back"] = NotAttached
    /\ usedAddresses = [n \in NetworkNames |-> {}]
    /\ ipv4Address = [s \in ServiceNames |-> [n \in NetworkNames |-> NoText]]
    /\ mu = NoOwner
    /\ ipPc = [s \in ServiceNames |-> "run"]
    /\ todo = [s \in ServiceNames |->
                 {n \in NetworkNames : attach[s][n] # NotAttached}]
    /\ curNet = [s \in ServiceNames |-> NoNet]
    /\ scanIP = [s \in ServiceNames |-> NoIP]
    /\ scanNetIP = [s \in ServiceNames |-> NoIP]
    /\ phase = "start"
    /\ ipErr = "nil"
    /\ DepIdle
    /\ TreeIdle
    /\ ManIdle
    /\ InitrdIdle
    /\ CreateIdle
    /\ StartIdle
    /\ ValidateIdle
    /\ XenIdle

\* lines 133-210: validate the networks, reserve gateway and network address,
\* then mark the static addresses.  The networks and the services are
\* ranged over in the order of their maps: a network validated before the
\* one that fails has been written back already.
ReserveFails ==
    /\ phase = "start"
    /\ \/ /\ \E n \in NetworkNames :
                /\ Managed(networks[n]) /\ ~GatewayOK(networks[n])
                /\ \E before \in SUBSET (NetworkNames \ {n}) :
                      /\ \A m \in before :
                            Managed(networks[m]) => GatewayOK(networks[m])
                      /\ networks' = [m \in NetworkNames |->
                                         IF m \in before THEN Defaulted(networks[m])
                                         ELSE networks[m]]
          /\ ipErr' = "GatewayNotInSubnet"
       \/ /\ \A n \in NetworkNames :
                Managed(networks[n]) => GatewayOK(networks[n])
          /\ \E s \in ServiceNames, n \in NetworkNames :
                HasStatic(s, n) /\ ~networks[n].ipam
          /\ networks' = [n \in NetworkNames |-> Defaulted(networks[n])]
          /\ ipErr' = "NoIpamConfig"
    /\ phase' = "returned"
    /\ UNCHANGED <<attach, usedAddresses, ipv4Address, mu, ipPc,
                   todo, curNet, scanIP, scanNetIP>>
    /\ IPOnly

\* line 207, reached for a static address on an external network with IPAM
\* configuration: the assignment to an entry of the nil map panics
ReservePanics ==
    /\ phase = "start"
    /\ \A n \in NetworkNames : Managed(networks[n]) => GatewayOK(networks[n])
    /\ \E s \in ServiceNames, n \in NetworkNames : StaticOnNilMap(s, n)
    /\ networks' = [n \in NetworkNames |-> Defaulted(networks[n])]
    /\ phase' = "panicked"
    /\ ipErr' = "panic"
    /\ UNCHANGED <<attach, usedAddresses, ipv4Address, mu, ipPc,
                   todo, curNet, scanIP, scanNetIP>>
    /\ IPOnly

Reserve ==
    /\ phase = "start"
    /\ \A n \in NetworkNames : Managed(networks[n]) => GatewayOK(networks[n])
    /\ \A s \in ServiceNames, n \in NetworkNames :
          HasStatic(s, n) => Managed(networks[n])
    /\ networks' = [n \in NetworkNames |-> Defaulted(networks[n])]
    /\ usedAddresses' =
          [n \in NetworkNames |->
              IF Managed(networks[n])
              THEN Reserved(networks[n]) \cup Statics(n)
              ELSE {}]
    /\ phase' = "parallel"
    /\ UNCHANGED <<attach, ipv4Address, mu, ipPc, todo, curNet,
                   scanIP, scanNetIP, ipErr>>
    /\ IPOnly

\* a lock that never blocks
MutexNeverBlocks == TRUE

\* sync.Mutex: Lock returns only when nobody holds the mutex
MutexFree == mu = NoOwner

\* line 225: an attachment with a static address, or on a network without
\* IPAM configuration, is left alone
SkipAttachment(s) ==
    /\ phase = "parallel"
    /\ ipPc[s] = "run"
    /\ \E n \in todo[s] :
          /\ HasStatic(s, n) \/ ~networks[n].ipam
          /\ todo' = [todo EXCEPT ![s] = @ \ {n}]
    /\ UNCHANGED <<networks, attach, usedAddresses, ipv4Address, mu, ipPc,
                   curNet, scanIP, scanNetIP, phase, ipErr>>
    /\ IPOnly

\* lines 229-246: parse the subnet, take the lock and scan upward
LockAndScan(s) ==
    /\ phase = "parallel"
    /\ ipPc[s] = "run"
    /\ \E n \in todo[s] :
          /\ ~HasStatic(s, n) /\ networks[n].ipam
          /\ MutexFree
          /\ LET subnet == ParseCIDR(networks[n].subnet).net
                 found == ScanLoop(subnet, subnet.IP, usedAddresses[n])
             IN  /\ scanNetIP' = [scanNetIP EXCEPT ![s] = found[1]]
                 /\ scanIP' = [scanIP EXCEPT ![s] = found[2]]
          /\ curNet' = [curNet EXCEPT ![s] = n]
          /\ todo' = [todo EXCEPT ![s] = @ \ {n}]
    /\ mu' = s
    /\ ipPc' = [ipPc EXCEPT ![s] = "locked"]
    /\ UNCHANGED <<networks, attach, usedAddresses, ipv4Address, phase, ipErr>>
    /\ IPOnly

\* lines 248-257: fail when the scan left the subnet, else assign the address,
\* mark it used, and only then unlock
AssignOrFail(s) ==
    /\ phase = "parallel"
    /\ ipPc[s] = "locked"
    /\ Managed(networks[curNet[s]])
    /\ LET n == curNet[s]
           subnet == [IP |-> scanNetIP[s], Bits |-> networks[n].subnet[2]]
       IN  IF ~Contains(subnet, scanIP[s])
           THEN /\ ipPc' = [ipPc EXCEPT ![s] = "failed"]
                /\ UNCHANGED <<ipv4Address, usedAddresses>>
           ELSE /\ ipv4Address' = [ipv4Address EXCEPT ![s][n] = String(scanIP[s])]
                /\ usedAddresses' =
                      [usedAddresses EXCEPT ![n] = @ \cup {String(scanIP[s])}]
                /\ ipPc' = [ipPc EXCEPT ![s] = "run"]
    /\ mu' = NoOwner
    /\ curNet' = [curNet EXCEPT ![s] = NoNet]
    /\ UNCHANGED <<networks, attach, todo, scanIP, scanNetIP, phase, ipErr>>
    /\ IPOnly

\* lines 253-254 on an external network with IPAM configuration: the
\* address is written to the service, then the assignment to an entry of the
\* nil map usedAddresses[name] panics, with the mutex held
AssignPanics(s) ==
    /\ phase = "parallel"
    /\ ipPc[s] = "locked"
    /\ ~Managed(networks[curNet[s]])
    /\ ipv4Address' = [ipv4Address EXCEPT ![s][curNet[s]] = String(scanIP[s])]
    /\ phase' = "panicked"
    /\ ipErr' = "panic"
    /\ UNCHANGED <<networks, attach, usedAddresses, mu, ipPc, todo, curNet,
                   scanIP, scanNetIP>>
    /\ IPOnly

\* line 260: the transform of a service returns
ServiceDone(s) ==
    /\ phase = "parallel"
    /\ ipPc[s] = "run"
    /\ todo[s] = {}
    /\ ipPc' = [ipPc EXCEPT ![s] = "done"]
    /\ UNCHANGED <<networks, attach, usedAddresses, ipv4Address, mu, todo,
                   curNet, scanIP, scanNetIP, phase, ipErr>>
    /\ IPOnly

\* lines 261-266: WithServicesTransform waits for every service and hands back
\* the error of a failed one
Return ==
    /\ phase = "parallel"
    /\ \A s \in ServiceNames : ipPc[s] \in {"done", "failed"}
    /\ phase' = "returned"
    /\ ipErr' = IF \E s \in ServiceNames : ipPc[s] = "failed"
                THEN "NotEnoughFreeIPs" ELSE "nil"
    /\ UNCHANGED <<networks, attach, usedAddresses, ipv4Address, mu, ipPc,
                   todo, curNet, scanIP, scanNetIP>>
    /\ IPOnly

IPNext ==
    \/ ReserveFails
    \/ ReservePanics
    \/ Reserve
    \/ \E s \in ServiceNames : SkipAttachment(s)
    \/ \E s \in ServiceNames : LockAndScan(s)
    \/ \E s \in ServiceNames : AssignOrFail(s)
    \/ \E s \in ServiceNames : AssignPanics(s)
    \/ \E s \in ServiceNames : ServiceDone(s)
    \/ Return

SpecIP == IPInit /\ [][IPNext]_vars

(***************************************************************************)
(* ServicesOrderedByDependencies and ServicesReversedByDependencies        *)
(*                                                                         *)
(* Both range over Go maps, whose iteration order is not defined: every    *)
(* range loop picks its next element freely among those not yet visited.   *)
(***************************************************************************)
ProjectServices == {"web", "db", "cache"}

Edges == {e \in ProjectServices \X ProjectServices : e[1] # e[2]}

\* the depends_on tables of the projects tried: at most MaxDependsOn entries,
\* each required or optional
DependsOnTables ==
    {d \in [Edges -> {"none", "optional", "required"}] :
        Cardinality({e \in Edges : d[e] # "none"}) <= MaxDependsOn}

\* service.DependsOn[name].Required (false for a missing entry)
Required(a, b) == a # b /\ dependsOn[<<a, b>>] = "required"

\* the keys of service.DependsOn
DependencyNames(a) == {b \in ProjectServices : b # a /\ dependsOn[<<a, b>>] # "none"}

\* ServiceConfig.GetDependents: the services with a depends_on entry for b
GetDependents(b) == {a \in ProjectServices : a # b /\ dependsOn[<<a, b>>] # "none"}

\* the names the closure ranges over for a service
RangeOf(service) ==
    IF reversed THEN GetDependents(service) ELSE DependencyNames(service)

\* lines 282 and 323: a name outside the services argument is passed over
\* unless expand is set
PassedOver(name) == name \notin services /\ ~expand

\* a recursion that does not look at the required flag
RecursesAlways(service, name) == name \notin added

\* lines 291-292 and 332-333: recurse into a name not yet added whose
\* dependency is required
Recurses(service, name) ==
    /\ name \notin added
    /\ IF reversed THEN Required(name, service) ELSE Required(service, name)

\* the part of the state the dependency functions do not touch
DepOnly ==
    UNCHANGED <<ipVars, treeVars, manVars, initrdVars, createVars, startVars,
                valVars, xenVars>>

DepInit ==
    /\ dependsOn \in DependsOnTables
    /\ services \in (SUBSET ProjectServices) \ {{}}
    /\ expand \in BOOLEAN
    /\ reversed \in BOOLEAN
    /\ added = {}
    /\ ordered = <<>>
    /\ callStack = <<>>
    /\ rangeTodo = services
    /\ depPc = "range"
    /\ IPIdle
    /\ TreeIdle
    /\ ManIdle
    /\ InitrdIdle
    /\ CreateIdle
    /\ StartIdle
    /\ ValidateIdle
    /\ XenIdle

\* a call of the closure (lines 278-280, 319-321): mark the service added
\* and start ranging over its names
Call(service) == [service |-> service, names |-> RangeOf(service)]

\* lines 300-305, 341-346: the outer loop reaches a service not yet added
RangeCall ==
    /\ depPc = "range"
    /\ callStack = <<>>
    /\ \E service \in rangeTodo :
          /\ service \notin added
          /\ rangeTodo' = rangeTodo \ {service}
          /\ added' = added \cup {service}
          /\ callStack' = <<Call(service)>>
    /\ UNCHANGED <<dependsOn, services, expand, reversed, ordered, depPc>>
    /\ DepOnly

\* lines 301-302, 342-343: the outer loop reaches a service already added
RangeSkip ==
    /\ depPc = "range"
    /\ callStack = <<>>
    /\ \E service \in rangeTodo :
          /\ service \in added
          /\ rangeTodo' = rangeTodo \ {service}
    /\ UNCHANGED <<dependsOn, services, expand, reversed, added, ordered,
                   callStack, depPc>>
    /\ DepOnly

\* the innermost call
Top == callStack[Len(callStack)]

\* the stack with the name taken off the innermost call's range
Visited(name) ==
    [callStack EXCEPT ![Len(callStack)].names = @ \ {name}]

\* lines 281-284, 322-325: the inner loop passes over a name
NamePassedOver ==
    /\ depPc = "range"
    /\ callStack # <<>>
    /\ \E name \in Top.names :
          /\ PassedOver(name)
          /\ callStack' = Visited(name)
    /\ UNCHANGED <<dependsOn, services, expand, reversed, added, ordered,
                   rangeTodo, depPc>>
    /\ DepOnly

\* lines 291-294, 332-335: the inner loop looks at a name and does not recurse
NameNotFollowed ==
    /\ depPc = "range"
    /\ callStack # <<>>
    /\ \E name \in Top.names :
          /\ ~PassedOver(name)
          /\ ~Recurses(Top.service, name)
          /\ callStack' = Visited(name)
    /\ UNCHANGED <<dependsOn, services, expand, reversed, added, ordered,
                   rangeTodo, depPc>>
    /\ DepOnly

\* lines 291-294, 332-335: the inner loop recurses into project.Services[name]
NameFollowed ==
    /\ depPc = "range"
    /\ callStack # <<>>
    /\ \E name \in Top.names :
          /\ ~PassedOver(name)
          /\ Recurses(Top.service, name)
          /\ added' = added \cup {name}
          /\ callStack' = Append(Visited(name), Call(name))
    /\ UNCHANGED <<dependsOn, services, expand, reversed, ordered, rangeTodo,
                   depPc>>
    /\ DepOnly

\* lines 297, 338: the inner loop is over, the service is appended
AppendService ==
    /\ depPc = "range"
    /\ callStack # <<>>
    /\ Top.names = {}
    /\ ordered' = Append(ordered, Top.service)
    /\ callStack' = SubSeq(callStack, 1, Len(callStack) - 1)
    /\ UNCHANGED <<dependsOn, services, expand, reversed, added, rangeTodo,
                   depPc>>
    /\ DepOnly

\* lines 307, 348: the outer loop is over, the sequence is returned
ReturnOrdered ==
    /\ depPc = "range"
    /\ callStack = <<>>
    /\ rangeTodo = {}
    /\ depPc' = "returned"
    /\ UNCHANGED <<dependsOn, services, expand, reversed, added, ordered,
                   callStack, rangeTodo>>
    /\ DepOnly

DepNext ==
    \/ RangeCall
    \/ RangeSkip
    \/ NamePassedOver
    \/ NameNotFollowed
    \/ NameFollowed
    \/ AppendService
    \/ ReturnOrdered

SpecDeps == DepInit /\ [][DepNext]_vars

(***************************************************************************)
(* The process tree (tui/processtree)                                      *)
(*                                                                         *)
(* Init and the handler of an exit message run on the event loop of the    *)
(* terminal program.  Every command they return runs in a goroutine of its *)
(* own, so the write of StatusRunning at line 327 happens some time after  *)
(* the node was handed out, and the event loop may read the status before. *)
(***************************************************************************)
Nodes == 1 .. NumNodes

\* the trees tried: every forest over the nodes in which a parent has a
\* smaller number than its children; siblings are ordered by number
Trees == {t \in [Nodes -> 0 .. NumNodes - 1] : \A n \in Nodes : t[n] < n}

RECURSIVE Sorted(_)
Sorted(set) ==
    IF set = {} THEN <<>>
    ELSE LET least == CHOOSE x \in set : \A y \in set : x <= y
         IN  <<least>> \o Sorted(set \ {least})

\* item.children, and pt.tree for 0
Children(n) == Sorted({c \in Nodes : parentOf[c] = n})

\* number of children with one of the given statuses
CountChildren(n, statuses) ==
    Cardinality({c \in Nodes : parentOf[c] = n /\ status[c] \in statuses})

\* lines 289-293: only start the parent if all children have succeeded, or
\* if there are no children, and the status is pending
ParentReady(item, subprocesses, items) ==
    /\ Len(subprocesses) = 0
    /\ CountChildren(item, {"Failed", "FailedChild"}) = 0
    /\ parallel \/ (Len(items) = 0 /\ ~parallel)
    /\ CountChildren(item, {"Success"}) = Len(Children(item))
    /\ status[item] \in {"Pending", "RunningChild"}

\* lines 256-299: getNextReadyChildren, the loop over tree from index k on
\* with the items gathered so far
RECURSIVE ReadyLoop(_, _, _)
ReadyLoop(tree, k, items) ==
    IF k > Len(tree) THEN items
    ELSE LET item == tree[k]
             subprocesses ==
                 IF Len(Children(item)) > 0
                 THEN ReadyLoop(Children(item), 1, <<>>)
                 ELSE <<>>
             withSub ==
                 IF parallel THEN items \o subprocesses
                 ELSE IF Len(subprocesses) > 0
                      THEN Append(items, subprocesses[1])
                      ELSE items
             withItem ==
                 IF ParentReady(item, subprocesses, withSub)
                 THEN Append(withSub, item)
                 ELSE withSub
         IN  ReadyLoop(tree, k + 1, withItem)

getNextReadyChildren(tree) == ReadyLoop(tree, 1, <<>>)

\* how often a node occurs in a sequence of nodes
Occurrences(seq, n) == Cardinality({i \in 1 .. Len(seq) : seq[i] = n})

\* lines 245-251: one waitForProcessCmd per node handed out
HandOut(ready) == [n \in Nodes |-> queued[n] + Occurrences(ready, n)]

\* the statuses the renderer derives for the nodes with children: a node
\* with a failed child becomes FailedChild, a waiting node with a running
\* child becomes RunningChild
RECURSIVE Derived(_, _)
Derived(st, n) ==
    IF n = 0 THEN st
    ELSE LET kids == {c \in Nodes : parentOf[c] = n}
             s == IF \E c \in kids : st[c] \in {"Failed", "FailedChild"}
                  THEN "FailedChild"
                  ELSE IF /\ st[n] = "Pending"
                          /\ \E c \in kids : st[c] \in {"Running", "RunningChild"}
                       THEN "RunningChild"
                       ELSE st[n]
         IN  Derived([st EXCEPT ![n] = s], n - 1)

\* the part of the state the process tree does not touch
TreeOnly ==
    UNCHANGED <<ipVars, depVars, manVars, initrdVars, createVars, startVars,
                valVars, xenVars>>

\* lines 89-176: NewProcessTree over items made by NewProcessTreeItem
TreeInit ==
    /\ parentOf \in Trees
    /\ parallel \in BOOLEAN
    /\ failFast \in BOOLEAN
    /\ status = [n \in Nodes |-> "Pending"]
    /\ queued = [n \in Nodes |-> 0]
    /\ inflight = [n \in Nodes |-> 0]
    /\ sending = [n \in Nodes |-> 0]
    /\ treeErr = 0
    /\ quitting = FALSE
    /\ treePc = "new"
    /\ timeout \in 0 .. MaxTimeout
    /\ overdue = {}
    /\ ctxCancelled = FALSE
    /\ IPIdle
    /\ DepIdle
    /\ ManIdle
    /\ InitrdIdle
    /\ CreateIdle
    /\ StartIdle
    /\ ValidateIdle
    /\ XenIdle

\* lines 235-254: Init starts every node that is ready
Init ==
    /\ treePc = "new"
    /\ treePc' = "running"
    /\ queued' = HandOut(getNextReadyChildren(Children(0)))
    /\ UNCHANGED <<parentOf, parallel, failFast, status, inflight, sending,
                   treeErr, quitting>>
    /\ UNCHANGED <<timeout, overdue, ctxCancelled>>
    /\ TreeOnly

\* lines 319-327: the command of a node begins and sets the node running
Begin(n) ==
    /\ treePc = "running"
    /\ queued[n] > 0
    /\ queued' = [queued EXCEPT ![n] = @ - 1]
    /\ inflight' = [inflight EXCEPT ![n] = @ + 1]
    /\ status' = [status EXCEPT ![n] = "Running"]
    /\ UNCHANGED <<parentOf, parallel, failFast, sending, treeErr, quitting,
                   treePc, timeout, overdue, ctxCancelled>>
    /\ TreeOnly

\* lines 329-340, the process returned nil: record Success and send the item
Succeed(n) ==
    /\ treePc = "running"
    /\ inflight[n] > 0
    /\ inflight' = [inflight EXCEPT ![n] = @ - 1]
    /\ sending' = [sending EXCEPT ![n] = @ + 1]
    /\ status' = [status EXCEPT ![n] = "Success"]
    /\ UNCHANGED <<parentOf, parallel, failFast, queued, treeErr, quitting,
                   treePc>>
    /\ overdue' = IF inflight[n] = 1 THEN overdue \ {n} ELSE overdue
    /\ UNCHANGED <<timeout, ctxCancelled>>
    /\ TreeOnly

\* lines 329-340, the process returned an error: record Failed, set pt.err,
\* ask to quit under fail-fast, and send the item
Fail(n) ==
    /\ treePc = "running"
    /\ inflight[n] > 0
    /\ inflight' = [inflight EXCEPT ![n] = @ - 1]
    /\ sending' = [sending EXCEPT ![n] = @ + 1]
    /\ status' = [status EXCEPT ![n] = "Failed"]
    /\ treeErr' = n
    /\ quitting' = (quitting \/ failFast)
    /\ UNCHANGED <<parentOf, parallel, failFast, queued, treePc>>
    /\ overdue' = IF inflight[n] = 1 THEN overdue \ {n} ELSE overdue
    /\ UNCHANGED <<timeout, ctxCancelled>>
    /\ TreeOnly

\* lines 346-350 and the handler of processExitMsg: the exit of a node is
\* received; the statuses of the parents are brought up to date and, unless
\* the tree is quitting, every node that is ready is started
ExitHandled(n) ==
    /\ treePc = "running"
    /\ sending[n] > 0
    /\ sending' = [sending EXCEPT ![n] = @ - 1]
    /\ status' = Derived(status, NumNodes)
    /\ queued' = IF quitting THEN queued
                 ELSE HandOut(getNextReadyChildren(Children(0)))
    /\ UNCHANGED <<parentOf, parallel, failFast, inflight, treeErr, quitting,
                   treePc>>
    /\ UNCHANGED <<timeout, overdue, ctxCancelled>>
    /\ TreeOnly

\* line 329: the worker of a node, running with item.ctx, has taken longer
\* than the timeout of the tree
Expire(n) ==
    /\ treePc = "running"
    /\ timeout > 0
    /\ inflight[n] > 0
    /\ n \notin overdue
    /\ overdue' = overdue \cup {n}
    /\ UNCHANGED <<parentOf, parallel, failFast, status, queued, inflight,
                   sending, treeErr, quitting, treePc, timeout, ctxCancelled>>
    /\ TreeOnly

\* the caller cancels the context NewProcessTree was given (line 96)
CancelInherited ==
    /\ treePc = "running"
    /\ ~ctxCancelled
    /\ ctxCancelled' = TRUE
    /\ UNCHANGED <<parentOf, parallel, failFast, status, queued, inflight,
                   sending, treeErr, quitting, treePc, timeout, overdue>>
    /\ TreeOnly

\* lines 116-155: item.ctx is pt.ctx with a logger and streams attached; no
\* deadline and no cancel function is attached, so it is done when pt.ctx is
ItemCtxDone(n) == ctxCancelled

TreeNext ==
    \/ Init
    \/ \E n \in Nodes : Begin(n)
    \/ \E n \in Nodes : Succeed(n)
    \/ \E n \in Nodes : Fail(n)
    \/ \E n \in Nodes : ExitHandled(n)
    \/ \E n \in Nodes : Expire(n)
    \/ CancelInherited

SpecTree == TreeInit /\ [][TreeNext]_vars

(***************************************************************************)
(* The OCI manifest (oci package)                                          *)
(*                                                                         *)
(* A digest is modelled by the content it is the digest of, so two digests *)
(* are equal exactly when the contents are.  The storage handler is shared *)
(* with other writers: SaveDescriptor may answer AlreadyExists although    *)
(* DigestInfo has just reported the blob missing.                          *)
(***************************************************************************)
\* largest number of mutating calls on a manifest
MaxOps == 3
\* largest number of Save calls on a manifest
MaxSaves == 3

\* the files layers are built from; the content of a file is named by its path
Paths == {"f1", "f2"}

\* the well-known annotations of the kernel, debug kernel and initrd layers
AnnotationKernelPath == "kernel"
AnnotationKernelDbgPath == "kernel.dbg"
AnnotationKernelInitrdPath == "initrd"
WellKnown == {AnnotationKernelPath, AnnotationKernelDbgPath, AnnotationKernelInitrdPath}
NoAnnotation == "none"

\* NewLayerFromFile with WithLayerAnnotation: a layer over the content of
\* the file, held in a local temp file, carrying the annotation
NewLayerFromFile(path, annotation) ==
    [digest |-> path, annotation |-> annotation, tmp |-> TRUE]

\* the layers handed to AddLayer directly
PlainLayers == {NewLayerFromFile(p, NoAnnotation) : p \in Paths}

\* the values the setters are called with
LabelValues == {"v1", "v2"}
FeatureNames == {"1", "2", "a"}

\* the answers of handler.SaveDescriptor
Answers == {"ok", "AlreadyExists", "error"}

\* ocispec.Image after NewManifest
EmptyConfig ==
    [Labels |-> "", Architecture |-> "", OS |-> "", OSVersion |-> "",
     OSFeatures |-> <<>>, Cmd |-> <<>>, Env |-> <<>>, RootFS |-> <<>>]

EmptyStore == [manifests |-> {}, configs |-> {}, blobs |-> {}]

NoReturn == [desc |-> Nil, err |-> "nil"]

\* the part of the state the manifest does not touch
ManOnly ==
    UNCHANGED <<ipVars, depVars, treeVars, initrdVars, createVars, startVars,
                valVars, xenVars>>

\* lines 50-66: NewManifest
ManInit ==
    /\ saved = FALSE
    /\ config = EmptyConfig
    /\ mfst = Nil
    /\ desc = Nil
    /\ layers = <<>>
    /\ annotations = {}
    /\ store = EmptyStore
    /\ savePc = "idle"
    /\ locals = <<>>
    /\ pending = {}
    /\ egErr = "nil"
    /\ answers = {}
    /\ writes = <<>>
    /\ ret = NoReturn
    /\ prevDesc = Nil
    /\ ops = 0
    /\ saves = 0
    /\ IPIdle
    /\ DepIdle
    /\ TreeIdle
    /\ InitrdIdle
    /\ CreateIdle
    /\ StartIdle
    /\ ValidateIdle
    /\ XenIdle

\* a mutating call is made between two Saves
CanMutate == savePc \in {"idle", "returned"} /\ ops < MaxOps

\* what every mutating call leaves alone, and the caller's position after it
Mutated ==
    /\ ops' = ops + 1
    /\ savePc' = "idle"
    /\ UNCHANGED <<mfst, desc, store, locals, pending, egErr, answers, writes,
                   ret, prevDesc, saves>>
    /\ ManOnly

\* lines 128-146: AddLayer
AddLayer(layer) ==
    /\ CanMutate
    /\ saved' = FALSE
    /\ layers' = Append(layers, layer)
    /\ UNCHANGED <<config, annotations>>
    /\ Mutated

\* a filter that keeps every layer
WithoutNothing(annotation) == layers

\* lines 191-205 (231-245, 271-285): the layers that do not carry the annotation
Without(annotation) == SelectSeq(layers, LAMBDA l : l.annotation # annotation)

\* lines 185-302: SetInitrd, SetKernel and SetKernelDbg drop the layers
\* carrying their annotation, build a layer from the file and add it; when
\* the file cannot be read they return the error after dropping
SetFile(annotation, path, built) ==
    /\ CanMutate
    /\ layers' = IF built
                 THEN Append(Without(annotation), NewLayerFromFile(path, annotation))
                 ELSE Without(annotation)
    /\ saved' = IF built THEN FALSE ELSE saved
    /\ UNCHANGED <<config, annotations>>
    /\ Mutated

SetInitrd(path, built) == SetFile(AnnotationKernelInitrdPath, path, built)

SetKernel(path, built) == SetFile(AnnotationKernelPath, path, built)

SetKernelDbg(path, built) == SetFile(AnnotationKernelDbgPath, path, built)

\* lines 305-312
SetLabel(val) ==
    /\ CanMutate
    /\ saved' = FALSE
    /\ config' = [config EXCEPT !.Labels = val]
    /\ UNCHANGED <<layers, annotations>>
    /\ Mutated

\* lines 315-322
SetAnnotation ==
    /\ CanMutate
    /\ saved' = FALSE
    /\ annotations' = annotations \cup {"user"}
    /\ UNCHANGED <<config, layers>>
    /\ Mutated

\* lines 325-328
SetArchitecture ==
    /\ CanMutate
    /\ saved' = FALSE
    /\ config' = [config EXCEPT !.Architecture = "x86_64"]
    /\ UNCHANGED <<layers, annotations>>
    /\ Mutated

\* lines 331-334
SetOS ==
    /\ CanMutate
    /\ saved' = FALSE
    /\ config' = [config EXCEPT !.OS = "linux"]
    /\ UNCHANGED <<layers, annotations>>
    /\ Mutated

\* lines 337-340
SetOSVersion ==
    /\ CanMutate
    /\ saved' = FALSE
    /\ config' = [config EXCEPT !.OSVersion = "1.0"]
    /\ UNCHANGED <<layers, annotations>>
    /\ Mutated

\* lines 343-350
SetOSFeature(feature) ==
    /\ CanMutate
    /\ saved' = FALSE
    /\ config' = [config EXCEPT !.OSFeatures = Append(@, feature)]
    /\ UNCHANGED <<layers, annotations>>
    /\ Mutated

\* lines 353-355: SetCmd does not touch manifest.saved
SetCmd ==
    /\ CanMutate
    /\ config' = [config EXCEPT !.Cmd = <<"app">>]
    /\ UNCHANGED <<saved, layers, annotations>>
    /\ Mutated

\* lines 358-360: SetEnv does not touch manifest.saved
SetEnv ==
    /\ CanMutate
    /\ config' = [config EXCEPT !.Env = <<"A=1">>]
    /\ UNCHANGED <<saved, layers, annotations>>
    /\ Mutated

\* strconv.Atoi succeeds (lines 402-403)
IsNumber(str) == str \in {"1", "2"}

\* strconv.Atoi of a string it accepts
Atoi(str) == IF str = "1" THEN 1 ELSE 2

\* the place of a string in the byte order of Go's string comparison
StringRank(str) ==
    CASE str = ""  -> 0
      [] str = "1" -> 1
      [] str = "2" -> 2
      [] str = "a" -> 3

\* lines 400-411: the less function handed to sort.Slice, on the entries at
\* i and j
Less(atI, atJ) ==
    IF IsNumber(atI)
    THEN IF IsNumber(atJ) THEN Atoi(atJ) < Atoi(atI) ELSE TRUE
    ELSE StringRank(atJ) > StringRank(atI)

\* sort.Slice on a short slice is an insertion sort: the entry at j sinks
\* while less(j, j-1)
RECURSIVE Sink(_, _)
Sink(seq, j) ==
    IF j > 1 /\ Less(seq[j], seq[j - 1])
    THEN Sink([seq EXCEPT ![j] = seq[j - 1], ![j - 1] = seq[j]], j - 1)
    ELSE seq

RECURSIVE InsertionSort(_, _)
InsertionSort(seq, i) ==
    IF i > Len(seq) THEN seq ELSE InsertionSort(Sink(seq, i), i + 1)

SortSlice(seq) == InsertionSort(seq, 2)

\* slices.Compact: drop every entry equal to the one before it
RECURSIVE Compact(_)
Compact(seq) ==
    IF Len(seq) <= 1 THEN seq
    ELSE LET front == Compact(SubSeq(seq, 1, Len(seq) - 1))
             last == seq[Len(seq)]
         IN  IF last = front[Len(front)] THEN front ELSE Append(front, last)

\* line 422: slices.Compact works in place on the array of
\* manifest.config.OSFeatures, whose length stays; the entries past the
\* compacted ones are zeroed (Go from 1.22 on) or left as they were
AfterCompact(seq, zeroed) ==
    LET front == Compact(seq)
    IN  front \o [i \in 1 .. Len(seq) - Len(front) |->
                     IF zeroed THEN "" ELSE seq[Len(front) + i]]

\* lines 386-389: the digests of the layers, in order
DiffIDs == [i \in 1 .. Len(layers) |-> layers[i].digest]

\* a Save that never returns the descriptor it has
ReturnsCachedNever == FALSE

\* lines 364-372: Save returns the descriptor it has when the manifest is
\* saved, or when the handler knows the descriptor's digest
ReturnsCached ==
    \/ saved /\ desc # Nil
    \/ desc # Nil /\ desc[1].Digest \in store.manifests

\* lines 391-396 and 400-413: the configuration as marshalled by Save
ConfigJson ==
    [config EXCEPT
        !.RootFS = IF Len(layers) > 0 THEN DiffIDs ELSE @,
        !.OSFeatures = SortSlice(@)]

\* lines 418-423
Platform ==
    [Architecture |-> config.Architecture, OS |-> config.OS,
     OSVersion |-> config.OSVersion,
     OSFeatures |-> Compact(SortSlice(config.OSFeatures))]

\* lines 438-449: the general annotations are added to the map
Annotated == annotations \cup {"general"}

\* lines 451-462: the manifest is generated only when there is none yet
Generated ==
    IF mfst = Nil THEN Some([Config |-> ConfigJson, Layers |-> DiffIDs]) ELSE mfst

\* line 464: the manifest as marshalled; its Annotations field is the map
\* manifest.annotations itself
ManifestJson ==
    [Config |-> Generated[1].Config, Layers |-> Generated[1].Layers,
     Annotations |-> Annotated]

\* lines 363-484: Save up to the first write
SaveCall ==
    /\ savePc \in {"idle", "returned"}
    /\ saves < MaxSaves
    /\ saves' = saves + 1
    /\ prevDesc' = IF ret.desc # Nil THEN ret.desc ELSE prevDesc
    /\ writes' = <<>>
    /\ answers' = {}
    /\ egErr' = "nil"
    /\ pending' = {}
    /\ IF ReturnsCached
       THEN /\ savePc' = "returned"
            /\ ret' = [desc |-> desc, err |-> "nil"]
            /\ UNCHANGED <<config, mfst, desc, annotations, locals>>
       ELSE /\ savePc' = "manifest"
            /\ \E zeroed \in BOOLEAN :
                  config' = [ConfigJson EXCEPT !.OSFeatures = AfterCompact(@, zeroed)]
            /\ annotations' = Annotated
            /\ mfst' = Generated
            /\ desc' = IF desc = Nil
                       THEN Some([Digest |-> ManifestJson, Platform |-> Platform])
                       ELSE desc
            /\ locals' = [configBlob |-> ConfigJson, manifestJson |-> ManifestJson]
            /\ UNCHANGED ret
    /\ UNCHANGED <<saved, layers, store, ops>>
    /\ ManOnly

\* the store with a blob added
Stored(kind, digest) == [store EXCEPT ![kind] = @ \cup {digest}]

\* a Save that goes on whatever SaveDescriptor answers for the manifest
ManifestFailsNever(answer) == FALSE

\* line 493: err != nil && !errors.Is(err, errdefs.ErrAlreadyExists)
ManifestFails(answer) == answer \notin {"ok", "AlreadyExists"}

\* lines 486-495: save the manifest descriptor; AlreadyExists is let through
SaveManifest ==
    /\ savePc = "manifest"
    /\ \E answer \in Answers :
          /\ answers' = answers \cup {answer}
          /\ IF ManifestFails(answer)
             THEN /\ savePc' = "returned"
                  /\ ret' = [desc |-> Nil, err |-> answer]
                  /\ UNCHANGED <<store, writes>>
             ELSE /\ savePc' = "config"
                  /\ store' = Stored("manifests", desc[1].Digest)
                  /\ writes' = IF answer = "ok" THEN Append(writes, "manifest")
                               ELSE writes
                  /\ UNCHANGED ret
    /\ UNCHANGED <<saved, config, mfst, desc, layers, annotations, locals,
                   pending, egErr, prevDesc, ops, saves>>
    /\ ManOnly

\* lines 149-182: AddBlob hands back whatever error SaveDescriptor answers
AddBlobFails(answer) == answer # "ok"

\* lines 497-508: add the config blob unless the handler has it, then mark
\* the manifest saved
SaveConfig ==
    /\ savePc = "config"
    /\ IF locals.configBlob \in store.configs
       THEN /\ savePc' = "layers"
            /\ saved' = TRUE
            /\ pending' = 1 .. Len(layers)
            /\ UNCHANGED <<store, writes, answers, ret>>
       ELSE \E answer \in Answers :
               /\ answers' = answers \cup {answer}
               /\ store' = IF answer = "error" THEN store
                           ELSE Stored("configs", locals.configBlob)
               /\ IF AddBlobFails(answer)
                  THEN /\ savePc' = "returned"
                       /\ ret' = [desc |-> Nil, err |-> answer]
                       /\ UNCHANGED <<saved, pending, writes>>
                  ELSE /\ savePc' = "layers"
                       /\ saved' = TRUE
                       /\ pending' = 1 .. Len(layers)
                       /\ writes' = Append(writes, "config")
                       /\ UNCHANGED ret
    /\ UNCHANGED <<config, mfst, desc, layers, annotations, locals, egErr,
                   prevDesc, ops, saves>>
    /\ ManOnly

\* lines 140 and 522-525: the pushed map only ever holds false
Pushed(digest) == FALSE

\* lines 515-543: the goroutine of layer i in the error group
PushLayer(i) ==
    /\ savePc = "layers"
    /\ i \in pending
    /\ pending' = pending \ {i}
    /\ IF \/ ~layers[i].tmp
          \/ Pushed(layers[i].digest)
          \/ layers[i].digest \in store.blobs
       THEN UNCHANGED <<store, writes, answers, egErr>>
       ELSE \E answer \in Answers :
               /\ answers' = answers \cup {answer}
               /\ store' = IF answer = "error" THEN store
                           ELSE Stored("blobs", layers[i].digest)
               /\ writes' = IF answer = "ok" THEN Append(writes, layers[i].digest)
                            ELSE writes
               /\ egErr' = IF AddBlobFails(answer) /\ egErr = "nil" THEN answer
                           ELSE egErr
    /\ UNCHANGED <<saved, config, mfst, desc, layers, annotations, savePc,
                   locals, ret, prevDesc, ops, saves>>
    /\ ManOnly

\* lines 544-548: wait for the group and return its error or the descriptor
SaveReturn ==
    /\ savePc = "layers"
    /\ pending = {}
    /\ savePc' = "returned"
    /\ ret' = IF egErr # "nil" THEN [desc |-> Nil, err |-> egErr]
              ELSE [desc |-> desc, err |-> "nil"]
    /\ UNCHANGED <<saved, config, mfst, desc, layers, annotations, store,
                   locals, pending, egErr, answers, writes, prevDesc, ops, saves>>
    /\ ManOnly

ManNext ==
    \/ \E layer \in PlainLayers : AddLayer(layer)
    \/ \E path \in Paths, built \in BOOLEAN : SetInitrd(path, built)
    \/ \E path \in Paths, built \in BOOLEAN : SetKernel(path, built)
    \/ \E path \in Paths, built \in BOOLEAN : SetKernelDbg(path, built)
    \/ \E val \in LabelValues : SetLabel(val)
    \/ SetAnnotation
    \/ SetArchitecture
    \/ SetOS
    \/ SetOSVersion
    \/ \E feature \in FeatureNames : SetOSFeature(feature)
    \/ SetCmd
    \/ SetEnv
    \/ SaveCall
    \/ SaveManifest
    \/ SaveConfig
    \/ \E i \in pending : PushLayer(i)
    \/ SaveReturn

SpecManifest == ManInit /\ [][ManNext]_vars

(***************************************************************************)
(* The Dockerfile initrd: dockerfile.Build                                 *)
(*                                                                         *)
(* The sources hold two versions of Build: initrd/dockerfile.go, and a     *)
(* later one that strips a leading shell invocation from the arguments and *)
(* gives hard links an inode and a link count.  Both are modelled;         *)
(* sourceFile says which one runs.                                         *)
(***************************************************************************)
SourceFiles == {"initrd/dockerfile.go", "part_006"}

\* the image configurations tried
Entrypoints == {<<>>, <<"/bin/sh">>, <<"/bin/sh", "-c">>, <<"myapp">>}
Cmds == {<<>>, <<"exec myapp">>, <<"-c", "exec myapp">>}
Images == [Entrypoint : Entrypoints, Cmd : Cmds]

\* lines 510-512 of the later version: drop a leading "/bin/sh", "-c"
StripShell(a) ==
    IF Len(a) >= 2 /\ a[1] = "/bin/sh" /\ a[2] = "-c"
    THEN SubSeq(a, 3, Len(a))
    ELSE a

\* the tar entries tried: two regular files and hard links to them
TypeReg == "TypeReg"
TypeLink == "TypeLink"
TarEntries ==
    {[Typeflag |-> TypeReg, Name |-> "a", Linkname |-> "", Size |-> 1],
     [Typeflag |-> TypeReg, Name |-> "c", Linkname |-> "", Size |-> 2],
     [Typeflag |-> TypeLink, Name |-> "b", Linkname |-> "a", Size |-> 0],
     [Typeflag |-> TypeLink, Name |-> "d", Linkname |-> "a", Size |-> 0],
     [Typeflag |-> TypeLink, Name |-> "e", Linkname |-> "c", Size |-> 0]}

\* longest tarball tried
MaxTarLen == 4

\* largest value rand.Int32 answers
MaxInode == 2
InodeSpace == 0 .. MaxInode

\* the tarballs tried: every name once, every hard link with its regular
\* file somewhere in the tarball, before or after the link
Tars ==
    {t \in UNION {[1 .. n -> TarEntries] : n \in 1 .. MaxTarLen} :
        /\ \A i, j \in DOMAIN t : i # j => t[i].Name # t[j].Name
        /\ \A i \in DOMAIN t :
              t[i].Typeflag = TypeLink =>
                  \E j \in DOMAIN t :
                      t[j].Typeflag = TypeReg /\ t[j].Name = t[i].Linkname}

\* the keys of fileCount
FileNames == {e.Name : e \in TarEntries} \cup {""}

\* fileCount[name], the zero value for a missing key
NoCount == [ok |-> FALSE, Count |-> 0, Inode |-> 0]

\* lines 562-586: one entry of the counting pass; r is what rand.Int32
\* answers.  A regular file counted after one of its links takes its inode
\* from fileCount[tarHeader.Linkname], the entry of the empty name.
Counted(fc, h, r) ==
    IF h.Typeflag = TypeLink
    THEN IF ~fc[h.Linkname].ok
         THEN [fc EXCEPT ![h.Linkname] = [ok |-> TRUE, Count |-> 1, Inode |-> r]]
         ELSE [fc EXCEPT ![h.Linkname] =
                  [ok |-> TRUE, Count |-> fc[h.Linkname].Count + 1,
                   Inode |-> fc[h.Linkname].Inode]]
    ELSE IF ~fc[h.Name].ok
         THEN [fc EXCEPT ![h.Name] = [ok |-> TRUE, Count |-> 1, Inode |-> r]]
         ELSE [fc EXCEPT ![h.Name] =
                  [ok |-> TRUE, Count |-> fc[h.Name].Count + 1,
                   Inode |-> fc[h.Linkname].Inode]]

\* lines 651-693: the CPIO header of a hard link or a regular file, and the
\* number of data bytes written after it
CpioEntry(fc, h) ==
    LET key == IF h.Typeflag = TypeLink THEN h.Linkname ELSE h.Name
    IN  [Name |-> h.Name,
         Linkname |-> h.Linkname,
         Typeflag |-> h.Typeflag,
         Size |-> IF h.Typeflag = TypeLink THEN 0 ELSE h.Size,
         Links |-> IF fc[key].ok THEN fc[key].Count ELSE 0,
         Inode |-> IF fc[key].ok THEN fc[key].Inode ELSE 0,
         Data |-> IF h.Typeflag = TypeLink THEN 0 ELSE h.Size]

\* initrd/dockerfile.go, lines 447-481: the header carries no link count and
\* no inode
CpioEntryPlain(h) ==
    [Name |-> h.Name,
     Linkname |-> h.Linkname,
     Typeflag |-> h.Typeflag,
     Size |-> IF h.Typeflag = TypeLink THEN 0 ELSE h.Size,
     Links |-> 0,
     Inode |-> 0,
     Data |-> IF h.Typeflag = TypeLink THEN 0 ELSE h.Size]

\* the part of the state Build does not touch
InitrdOnly ==
    UNCHANGED <<ipVars, depVars, treeVars, manVars, createVars, startVars,
                valVars, xenVars>>

\* the build has produced the image and the tarball
InitrdInit ==
    /\ image \in Images
    /\ sourceFile \in SourceFiles
    /\ args = <<>>
    /\ tarFile \in Tars
    /\ fileCount = [n \in FileNames |-> NoCount]
    /\ cpioOut = <<>>
    /\ buildPc = "image"
    /\ tarPos = 0
    /\ IPIdle
    /\ DepIdle
    /\ TreeIdle
    /\ ManIdle
    /\ CreateIdle
    /\ StartIdle
    /\ ValidateIdle
    /\ XenIdle

\* later version, lines 502-550: the arguments, then the tarball is opened
\* for the counting pass
ReadImage ==
    /\ buildPc = "image"
    /\ sourceFile = "part_006"
    /\ args' = StripShell(image.Entrypoint \o image.Cmd)
    /\ buildPc' = "count"
    /\ tarPos' = 1
    /\ UNCHANGED <<image, sourceFile, tarFile, fileCount, cpioOut>>
    /\ InitrdOnly

\* initrd/dockerfile.go, lines 352-387: the arguments, then the tarball is
\* opened for the only pass
ReadImageUnstripped ==
    /\ buildPc = "image"
    /\ sourceFile = "initrd/dockerfile.go"
    /\ args' = image.Entrypoint \o image.Cmd
    /\ buildPc' = "write"
    /\ tarPos' = 1
    /\ UNCHANGED <<image, sourceFile, tarFile, fileCount, cpioOut>>
    /\ InitrdOnly

\* lines 553-587: the counting pass reads one header
CountEntry ==
    /\ buildPc = "count"
    /\ tarPos <= Len(tarFile)
    /\ \E r \in InodeSpace :
          fileCount' = Counted(fileCount, tarFile[tarPos], r)
    /\ tarPos' = tarPos + 1
    /\ UNCHANGED <<image, sourceFile, args, tarFile, cpioOut, buildPc>>
    /\ InitrdOnly

\* lines 555-557 and 589-594: end of the archive, back to its start
Rewind ==
    /\ buildPc = "count"
    /\ tarPos > Len(tarFile)
    /\ buildPc' = "write"
    /\ tarPos' = 1
    /\ UNCHANGED <<image, sourceFile, args, tarFile, fileCount, cpioOut>>
    /\ InitrdOnly

\* lines 596-712, and 389-500 of initrd/dockerfile.go: the writing pass
\* handles one entry
WriteEntry ==
    /\ buildPc = "write"
    /\ tarPos <= Len(tarFile)
    /\ cpioOut' = Append(cpioOut,
                     IF sourceFile = "part_006"
                     THEN CpioEntry(fileCount, tarFile[tarPos])
                     ELSE CpioEntryPlain(tarFile[tarPos]))
    /\ tarPos' = tarPos + 1
    /\ UNCHANGED <<image, sourceFile, args, tarFile, fileCount, buildPc>>
    /\ InitrdOnly

\* lines 598-600 and 714-720: end of the archive, Build returns
BuildReturn ==
    /\ buildPc = "write"
    /\ tarPos > Len(tarFile)
    /\ buildPc' = "returned"
    /\ UNCHANGED <<image, sourceFile, args, tarFile, fileCount, cpioOut,
                   tarPos>>
    /\ InitrdOnly

InitrdNext ==
    \/ ReadImage
    \/ ReadImageUnstripped
    \/ CountEntry
    \/ Rewind
    \/ WriteEntry
    \/ BuildReturn

SpecInitrd == InitrdInit /\ [][InitrdNext]_vars

(***************************************************************************)
(* kraft compose create (CreateOptions.Run) and kraft compose build        *)
(* (BuildOptions.Run)                                                      *)
(*                                                                         *)
(* The controllers, the catalog and the commands Run calls (network and    *)
(* volume creation, machine removal, build, package, pull, run) are        *)
(* outside: what they answer is an input of every step.  crLog keeps the   *)
(* calls in the order Run makes them.                                      *)
(***************************************************************************)
VolumeNames == {"data"}
CreateServices == {"web", "db"}

\* project.Networks as AssignIPs left them: external, with an IPAM
\* configuration (whose subnet AssignIPs has parsed), or without one
NetworkKinds == [NetworkNames -> {"subnet", "empty", "external"}]
VolumeKinds == [VolumeNames -> {"plain", "external"}]

\* service.Image # "" and service.Build # nil; Validate has refused a service
\* with neither
ServiceConfigs ==
    {c \in [Image : BOOLEAN, Build : BOOLEAN] : c.Image \/ c.Build}

Projects ==
    {p \in [networks : NetworkKinds, volumes : VolumeKinds,
            services : [CreateServices -> ServiceConfigs]] :
        /\ p.networks["front"] = "subnet"
        /\ p.services["db"] = [Image |-> TRUE, Build |-> TRUE]}

MachineStateRunning == "running"
MachineStateCreated == "created"
MachineStateExited == "exited"
NoMachine == "none"

\* what exists on the platform when Run begins
Platforms ==
    {l \in [networks : SUBSET NetworkNames, volumes : SUBSET VolumeNames,
            machines : [CreateServices ->
                           {NoMachine, MachineStateRunning,
                            MachineStateCreated, MachineStateExited}]] :
        /\ l.networks \subseteq {"front"}
        /\ l.machines["web"] # MachineStateCreated
        /\ l.machines["db"] # MachineStateRunning}

\* the sequences listing every element of a set once
Perms(set) ==
    {q \in [1 .. Cardinality(set) -> set] :
        \A i, j \in DOMAIN q : i # j => q[i] # q[j]}

\* a list with the networks without IPAM configuration first
OrderedNetworksEmptyFirst(subnetNetworks, emptyNetworks) ==
    emptyNetworks \o subnetNetworks

\* line 182
OrderedNetworks(subnetNetworks, emptyNetworks) ==
    subnetNetworks \o emptyNetworks

\* lines 169-180: the two lists, each in the order the range over the map
\* happened to take
SubnetNetworks(p) == Perms({n \in NetworkNames : p.networks[n] = "subnet"})
EmptyNetworks(p) == Perms({n \in NetworkNames : p.networks[n] = "empty"})

VolumeSeq == <<"data">>

\* one call made by Run
Called(call, name, answer) == [call |-> call, name |-> name, answer |-> answer]

\* lines 138-155: the deferred Update, and the one of lines 350-365
Update(rec, pm, pn, pv) ==
    Append(rec, [Machines |-> pm, Networks |-> pn, Volumes |-> pv])

\* the elements of a sequence, and a sequence without the first occurrence
\* of an element (lines 316-321)
InSeq(q, x) == \E i \in DOMAIN q : q[i] = x
DropFirst(q, x) ==
    IF ~InSeq(q, x) THEN q
    ELSE LET i == CHOOSE i \in DOMAIN q :
                      q[i] = x /\ \A j \in 1 .. (i - 1) : q[j] # x
         IN  SubSeq(q, 1, i - 1) \o SubSeq(q, i + 1, Len(q))

\* the names of a set in a fixed order
RECURSIVE SeqOf(_, _)
SeqOf(q, set) ==
    IF q = <<>> THEN <<>>
    ELSE (IF q[1] \in set THEN <<q[1]>> ELSE <<>>) \o SeqOf(Tail(q), set)

\* the part of the state compose create does not touch
CreateOnly ==
    UNCHANGED <<ipVars, depVars, treeVars, manVars, initrdVars, startVars,
                valVars, xenVars>>

\* lines 88-137: the project is loaded, validated and given addresses; the
\* recorded lists are those of the embedded project
CreateInit ==
    /\ command \in {"create", "build"}
    /\ project \in Projects
    /\ live \in Platforms
    /\ command = "build" =>
          /\ live = [networks |-> {}, volumes |-> {},
                     machines |-> [s \in CreateServices |-> NoMachine]]
          /\ project.networks["back"] = "empty"
          /\ project.volumes = [v \in VolumeNames |-> "plain"]
    /\ listed = live
    /\ projectMachines =
          SeqOf(<<"web", "db">>, {s \in CreateServices : live.machines[s] # NoMachine})
    /\ projectNetworks =
          SeqOf(<<"front", "back">>,
                {n \in live.networks : project.networks[n] # "external"})
    /\ projectVolumes =
          SeqOf(VolumeSeq, {v \in live.volumes : project.volumes[v] # "external"})
    /\ recorded = <<>>
    /\ orderedNetworks = <<>>
    /\ orderedServices = <<>>
    /\ crPos = 0
    /\ crPc = "start"
    /\ crLog = <<>>
    /\ crErr = "nil"
    /\ IPIdle
    /\ DepIdle
    /\ TreeIdle
    /\ ManIdle
    /\ InitrdIdle
    /\ StartIdle
    /\ ValidateIdle
    /\ XenIdle

\* a return after line 138: the deferred function hands the three lists to
\* the controller, then Run returns err
Exits(err, pm, pn, pv) ==
    /\ recorded' = Update(recorded, pm, pn, pv)
    /\ crErr' = err
    /\ crPc' = "returned"

\* lines 88-128: a return before the deferred function is registered (the
\* project does not load, Validate or AssignIPs fails, the compose
\* controller fails)
EarlyExit ==
    /\ command = "create"
    /\ crPc = "start"
    /\ crErr' = "err"
    /\ crPc' = "returned"
    /\ UNCHANGED <<command, project, live, listed, projectMachines,
                   projectNetworks, projectVolumes, recorded, orderedNetworks,
                   orderedServices, crPos, crLog>>
    /\ CreateOnly

\* lines 157-165: the network controller or its List fails
ListNetworksFails ==
    /\ command = "create"
    /\ crPc = "start"
    /\ Exits("err", projectMachines, projectNetworks, projectVolumes)
    /\ UNCHANGED <<command, project, live, listed, projectMachines,
                   projectNetworks, projectVolumes, orderedNetworks,
                   orderedServices, crPos, crLog>>
    /\ CreateOnly

\* lines 157-182: the networks are listed and put in order
OrderNetworks ==
    /\ command = "create"
    /\ crPc = "start"
    /\ \E subnetNetworks \in SubnetNetworks(project),
          emptyNetworks \in EmptyNetworks(project) :
          orderedNetworks' = OrderedNetworks(subnetNetworks, emptyNetworks)
    /\ crPos' = 1
    /\ crPc' = "networks"
    /\ UNCHANGED <<command, project, live, listed, projectMachines,
                   projectNetworks, projectVolumes, recorded, orderedServices,
                   crLog, crErr>>
    /\ CreateOnly

\* lines 184-195: a network the platform already lists is passed over
NetworkSkip ==
    /\ crPc = "networks"
    /\ crPos <= Len(orderedNetworks)
    /\ orderedNetworks[crPos] \in listed.networks
    /\ crPos' = crPos + 1
    /\ UNCHANGED <<command, project, live, listed, projectMachines,
                   projectNetworks, projectVolumes, recorded, orderedNetworks,
                   orderedServices, crPc, crLog, crErr>>
    /\ CreateOnly

\* lines 197-224: the network is created; it is recorded when the
\* controller then shows it up
NetworkCreate ==
    /\ crPc = "networks"
    /\ crPos <= Len(orderedNetworks)
    /\ orderedNetworks[crPos] \notin listed.networks
    /\ LET n == orderedNetworks[crPos] IN
       \E created \in BOOLEAN, up \in BOOLEAN :
          /\ crLog' = Append(crLog,
                         Called("netcreate", n, IF created THEN "ok" ELSE "err"))
          /\ IF ~created
             THEN /\ Exits("err", projectMachines, projectNetworks, projectVolumes)
                  /\ UNCHANGED <<live, projectNetworks, crPos>>
             ELSE /\ live' = [live EXCEPT !.networks = @ \cup {n}]
                  /\ projectNetworks' =
                        IF up THEN Append(projectNetworks, n) ELSE projectNetworks
                  /\ crPos' = crPos + 1
                  /\ UNCHANGED <<recorded, crErr, crPc>>
    /\ UNCHANGED <<command, project, listed, projectMachines, projectVolumes,
                   orderedNetworks, orderedServices>>
    /\ CreateOnly

\* lines 226-234: after the last network the volumes are listed
ListVolumes ==
    /\ crPc = "networks"
    /\ crPos > Len(orderedNetworks)
    /\ \E ok \in BOOLEAN :
          IF ok
          THEN /\ crPc' = "volumes"
               /\ crPos' = 1
               /\ UNCHANGED <<recorded, crErr>>
          ELSE /\ Exits("err", projectMachines, projectNetworks, projectVolumes)
               /\ UNCHANGED crPos
    /\ UNCHANGED <<command, project, live, listed, projectMachines,
                   projectNetworks, projectVolumes, orderedNetworks,
                   orderedServices, crLog>>
    /\ CreateOnly

\* lines 236-249: an external volume, or one that already exists, is passed
\* over
VolumeSkip ==
    /\ crPc = "volumes"
    /\ crPos <= Len(VolumeSeq)
    /\ \/ project.volumes[VolumeSeq[crPos]] = "external"
       \/ VolumeSeq[crPos] \in listed.volumes
    /\ crPos' = crPos + 1
    /\ UNCHANGED <<command, project, live, listed, projectMachines,
                   projectNetworks, projectVolumes, recorded, orderedNetworks,
                   orderedServices, crPc, crLog, crErr>>
    /\ CreateOnly

\* lines 251-278: the volume is created, read back and recorded
VolumeCreate ==
    /\ crPc = "volumes"
    /\ crPos <= Len(VolumeSeq)
    /\ project.volumes[VolumeSeq[crPos]] # "external"
    /\ VolumeSeq[crPos] \notin listed.volumes
    /\ LET v == VolumeSeq[crPos] IN
       \E created \in BOOLEAN, got \in BOOLEAN :
          /\ crLog' = Append(crLog,
                         Called("volcreate", v, IF created THEN "ok" ELSE "err"))
          /\ live' = IF created THEN [live EXCEPT !.volumes = @ \cup {v}] ELSE live
          /\ IF created /\ got
             THEN /\ projectVolumes' = Append(projectVolumes, v)
                  /\ crPos' = crPos + 1
                  /\ UNCHANGED <<recorded, crErr, crPc>>
             ELSE /\ Exits("err", projectMachines, projectNetworks, projectVolumes)
                  /\ UNCHANGED <<projectVolumes, crPos>>
    /\ UNCHANGED <<command, project, listed, projectMachines, projectNetworks,
                   orderedNetworks, orderedServices>>
    /\ CreateOnly

\* lines 280-296: after the last volume the machines are listed and the
\* services put in dependency order
OrderServices ==
    /\ crPc = "volumes"
    /\ crPos > Len(VolumeSeq)
    /\ \E ok \in BOOLEAN :
          IF ok
          THEN /\ orderedServices' \in Perms(CreateServices)
               /\ crPc' = "check"
               /\ crPos' = 1
               /\ UNCHANGED <<recorded, crErr>>
          ELSE /\ Exits("err", projectMachines, projectNetworks, projectVolumes)
               /\ UNCHANGED <<orderedServices, crPos>>
    /\ UNCHANGED <<command, project, live, listed, projectMachines,
                   projectNetworks, projectVolumes, orderedNetworks, crLog>>
    /\ CreateOnly

\* a check that never finds the machine created
AlreadyCreatedNever(state) == FALSE

\* line 304
AlreadyCreated(state) ==
    state = MachineStateRunning \/ state = MachineStateCreated

\* lines 432-447: buildService; the calls it makes and whether it fails
BuildService(name, cfg, build) ==
    IF ~cfg.Build
    THEN [calls |-> <<>>, err |-> TRUE]
    ELSE [calls |-> <<Called("build", name, build)>>, err |-> build = "err"]

\* lines 449-466: pkgService
PkgService(name, pkg) ==
    [calls |-> <<Called("pkg", name, pkg)>>, err |-> pkg = "err"]

\* the same steps with the remote catalog asked before the local one
EnsureRemoteFirst(name, cfg, local, remote, pull, build, pkg) ==
    IF remote = "found"
    THEN [calls |-> <<Called("remote", name, remote), Called("pull", name, pull)>>,
          err |-> pull = "err"]
    ELSE [calls |-> <<Called("remote", name, remote), Called("local", name, local)>>,
          err |-> local # "found"]

\* lines 370-430: ensureServiceIsPackaged; local and remote are what the two
\* catalog queries answer
EnsureServiceIsPackaged(name, cfg, local, remote, pull, build, pkg) ==
    LET l == <<Called("local", name, local)>>
        r == l \o <<Called("remote", name, remote)>>
        b == BuildService(name, cfg, build)
    IN  IF local = "err" THEN [calls |-> l, err |-> TRUE]
        ELSE IF local = "found" THEN [calls |-> l, err |-> FALSE]
        ELSE IF remote = "err" THEN [calls |-> r, err |-> TRUE]
        ELSE IF remote = "found"
             THEN [calls |-> r \o <<Called("pull", name, pull)>>,
                   err |-> pull = "err"]
        ELSE IF b.err THEN [calls |-> r \o b.calls, err |-> TRUE]
        ELSE [calls |-> r \o b.calls \o PkgService(name, pkg).calls,
              err |-> PkgService(name, pkg).err]

CatalogAnswers == {"found", "missing", "err"}
CallAnswers == {"ok", "err"}

\* lines 297-307, 324-326: the machine of the service exists, running or
\* created: on to the next service
ServiceSkip ==
    /\ crPc = "check"
    /\ crPos <= Len(orderedServices)
    /\ AlreadyCreated(listed.machines[orderedServices[crPos]])
    /\ crLog' = Append(crLog, Called("service", orderedServices[crPos], "skip"))
    /\ crPos' = crPos + 1
    /\ UNCHANGED <<command, project, live, listed, projectMachines,
                   projectNetworks, projectVolumes, recorded, orderedNetworks,
                   orderedServices, crPc, crErr>>
    /\ CreateOnly

\* lines 297-323: the machine exists in another state: it is removed and
\* taken off projectMachines
ServiceRemove ==
    /\ crPc = "check"
    /\ crPos <= Len(orderedServices)
    /\ LET s == orderedServices[crPos] IN
       /\ listed.machines[s] # NoMachine
       /\ ~AlreadyCreated(listed.machines[s])
       /\ \E rm \in CallAnswers :
             /\ crLog' = crLog \o <<Called("service", s, "found"),
                                    Called("remove", s, rm)>>
             /\ IF rm = "ok"
                THEN /\ live' = [live EXCEPT !.machines[s] = NoMachine]
                     /\ projectMachines' = DropFirst(projectMachines, s)
                     /\ crPc' = "package"
                     /\ UNCHANGED <<recorded, crErr>>
                ELSE /\ Exits("err", projectMachines, projectNetworks, projectVolumes)
                     /\ UNCHANGED <<live, projectMachines>>
    /\ UNCHANGED <<command, project, listed, projectNetworks, projectVolumes,
                   orderedNetworks, orderedServices, crPos>>
    /\ CreateOnly

\* lines 297-326: no machine of that name is listed
ServiceNew ==
    /\ crPc = "check"
    /\ crPos <= Len(orderedServices)
    /\ listed.machines[orderedServices[crPos]] = NoMachine
    /\ crLog' = Append(crLog, Called("service", orderedServices[crPos], "new"))
    /\ crPc' = "package"
    /\ UNCHANGED <<command, project, live, listed, projectMachines,
                   projectNetworks, projectVolumes, recorded, orderedNetworks,
                   orderedServices, crPos, crErr>>
    /\ CreateOnly

\* lines 327-333: build the service, or make sure its image is packaged
ServicePackage ==
    /\ crPc = "package"
    /\ LET s == orderedServices[crPos]
           cfg == project.services[s]
       IN  \E local \in CatalogAnswers, remote \in CatalogAnswers,
              pull \in CallAnswers, build \in CallAnswers, pkg \in CallAnswers :
              LET done == IF ~cfg.Image
                          THEN BuildService(s, cfg, build)
                          ELSE EnsureServiceIsPackaged(s, cfg, local, remote,
                                                       pull, build, pkg)
              IN  /\ crLog' = crLog \o done.calls
                  /\ IF done.err
                     THEN Exits("err", projectMachines, projectNetworks,
                                projectVolumes)
                     ELSE /\ crPc' = "create"
                          /\ UNCHANGED <<recorded, crErr>>
    /\ UNCHANGED <<command, project, live, listed, projectMachines,
                   projectNetworks, projectVolumes, orderedNetworks,
                   orderedServices, crPos>>
    /\ CreateOnly

\* lines 335-348: create the machine, logging a failure; then read the
\* machine back: it is recorded when created, and Run returns when the
\* controller cannot get it
ServiceCreate ==
    /\ crPc = "create"
    /\ LET s == orderedServices[crPos] IN
       \E created \in BOOLEAN, got \in BOOLEAN :
          /\ crLog' = Append(crLog,
                         Called("create", s, IF created THEN "ok" ELSE "err"))
          /\ IF created
             THEN /\ live' = [live EXCEPT !.machines[s] = MachineStateCreated]
                  /\ projectMachines' = Append(projectMachines, s)
                  /\ crPos' = crPos + 1
                  /\ crPc' = "check"
                  /\ UNCHANGED <<recorded, crErr>>
             ELSE IF got
             THEN /\ crPos' = crPos + 1
                  /\ crPc' = "check"
                  /\ UNCHANGED <<live, projectMachines, recorded, crErr>>
             ELSE /\ Exits("err", projectMachines, projectNetworks, projectVolumes)
                  /\ UNCHANGED <<live, projectMachines, crPos>>
    /\ UNCHANGED <<command, project, listed, projectNetworks, projectVolumes,
                   orderedNetworks, orderedServices>>
    /\ CreateOnly

\* lines 350-367: after the last service the state is written, and written
\* again by the deferred function
UpdateProject ==
    /\ crPc = "check"
    /\ crPos > Len(orderedServices)
    /\ \E ok \in BOOLEAN :
          /\ recorded' = Update(Update(recorded, projectMachines, projectNetworks,
                                       projectVolumes),
                                projectMachines, projectNetworks, projectVolumes)
          /\ crErr' = IF ok THEN "nil" ELSE "err"
    /\ crPc' = "returned"
    /\ UNCHANGED <<command, project, live, listed, projectMachines,
                   projectNetworks, projectVolumes, orderedNetworks,
                   orderedServices, crPos, crLog>>
    /\ CreateOnly

\* compose build, lines 62-85: the services to build
BuildServices ==
    /\ command = "build"
    /\ crPc = "start"
    /\ orderedServices' \in Perms(CreateServices)
    /\ crPc' = "build"
    /\ crPos' = 1
    /\ UNCHANGED <<command, project, live, listed, projectMachines,
                   projectNetworks, projectVolumes, recorded, orderedNetworks,
                   crLog, crErr>>
    /\ CreateOnly

\* compose build, lines 86-100: one service is built, and packaged when it
\* has an image name; the first failure is returned
BuildLoop ==
    /\ crPc = "build"
    /\ crPos <= Len(orderedServices)
    /\ LET s == orderedServices[crPos]
           cfg == project.services[s]
       IN  \E build \in CallAnswers, pkg \in CallAnswers :
              LET b == BuildService(s, cfg, build)
                  calls == IF ~cfg.Build THEN <<>>
                           ELSE IF b.err \/ ~cfg.Image THEN b.calls
                           ELSE b.calls \o PkgService(s, pkg).calls
                  failed == cfg.Build /\ (b.err \/ (cfg.Image /\ pkg = "err"))
              IN  /\ crLog' = crLog \o <<Called("service", s, "build")>> \o calls
                  /\ IF failed
                     THEN /\ crErr' = "err"
                          /\ crPc' = "returned"
                          /\ UNCHANGED crPos
                     ELSE /\ crPos' = crPos + 1
                          /\ UNCHANGED <<crErr, crPc>>
    /\ UNCHANGED <<command, project, live, listed, projectMachines,
                   projectNetworks, projectVolumes, recorded, orderedNetworks,
                   orderedServices>>
    /\ CreateOnly

\* compose build, line 102
BuildDone ==
    /\ crPc = "build"
    /\ crPos > Len(orderedServices)
    /\ crPc' = "returned"
    /\ UNCHANGED <<command, project, live, listed, projectMachines,
                   projectNetworks, projectVolumes, recorded, orderedNetworks,
                   orderedServices, crPos, crLog, crErr>>
    /\ CreateOnly

CreateNext ==
    \/ EarlyExit
    \/ ListNetworksFails
    \/ OrderNetworks
    \/ NetworkSkip
    \/ NetworkCreate
    \/ ListVolumes
    \/ VolumeSkip
    \/ VolumeCreate
    \/ OrderServices
    \/ ServiceSkip
    \/ ServiceRemove
    \/ ServiceNew
    \/ ServicePackage
    \/ ServiceCreate
    \/ UpdateProject
    \/ BuildServices
    \/ BuildLoop
    \/ BuildDone

SpecCreate == CreateInit /\ [][CreateNext]_vars

(***************************************************************************)
(* kraft compose start (StartOptions.Run)                                  *)
(*                                                                         *)
(* Run orders the services with ServicesOrderedByDependencies (the steps   *)
(* modelled above, with expand set), collects the machines to start and    *)
(* hands the list to the start command with Detach set.                    *)
(***************************************************************************)
\* largest number of depends_on entries in a project given to compose start
MaxStartDependsOn == 2

MachineStatePaused == "paused"

\* machines.Items: the state of the machine named after each service
ListedMachines ==
    [ProjectServices -> {NoMachine, MachineStateCreated, MachineStateExited,
                         MachineStateRunning, MachineStatePaused}]

\* the part of the state compose start does not touch
StartOnly ==
    UNCHANGED <<ipVars, depVars, treeVars, manVars, initrdVars, createVars,
                valVars, xenVars>>

\* lines 66-100: the project is loaded and validated, the machines are
\* listed, and ServicesOrderedByDependencies(ctx, services, true) is called
StartInit ==
    /\ dependsOn \in DependsOnTables
    /\ Cardinality({e \in Edges : dependsOn[e] # "none"}) <= MaxStartDependsOn
    /\ services = ProjectServices
    /\ expand = TRUE
    /\ reversed = FALSE
    /\ added = {}
    /\ ordered = <<>>
    /\ callStack = <<>>
    /\ rangeTodo = services
    /\ depPc = "range"
    /\ machines \in ListedMachines
    /\ machinesToStart = <<>>
    /\ started = <<>>
    /\ startPc = "order"
    /\ IPIdle
    /\ TreeIdle
    /\ ManIdle
    /\ InitrdIdle
    /\ CreateIdle
    /\ ValidateIdle
    /\ XenIdle

\* line 105
ToStart(state) == state = MachineStateCreated \/ state = MachineStateExited

\* lines 101-110: the machines of the ordered services that are created or
\* exited, in the order of the services
RECURSIVE Collected(_)
Collected(q) ==
    IF q = <<>> THEN <<>>
    ELSE (IF machines[q[1]] # NoMachine /\ ToStart(machines[q[1]])
          THEN <<q[1]>> ELSE <<>>) \o Collected(Tail(q))

\* lines 100-110
CollectMachines ==
    /\ depPc = "returned"
    /\ startPc = "order"
    /\ machinesToStart' = Collected(ordered)
    /\ startPc' = "collected"
    /\ UNCHANGED <<machines, started>>
    /\ StartOnly

\* lines 112-121: the list is handed to the start command
StartMachines ==
    /\ startPc = "collected"
    /\ started' = machinesToStart
    /\ startPc' = "returned"
    /\ UNCHANGED <<machines, machinesToStart>>
    /\ StartOnly

\* with expand set no name is passed over (line 282)
StartNext ==
    \/ RangeCall
    \/ RangeSkip
    \/ NameNotFollowed
    \/ NameFollowed
    \/ AppendService
    \/ ReturnOrdered
    \/ CollectMachines
    \/ StartMachines

SpecStart == StartInit /\ [][StartNext]_vars

(***************************************************************************)
(* Project.Validate                                                        *)
(*                                                                         *)
(* Texts are sequences of their parts, the empty text is <<>>.             *)
(***************************************************************************)
ValServices == {"web", "db"}
ValNetworks == {"front"}

\* the services as loaded: container_name and platform given or not, image
\* and build context given or not, and the networks the service names
LoadedServices ==
    [ContainerName : {<<>>, <<"given">>},
     Platform : {<<>>, <<"xen/arm64">>},
     Image : BOOLEAN,
     Build : BOOLEAN,
     Networks : SUBSET (ValNetworks \cup {"missing"})]

LoadedProjects ==
    {p \in [Name : {<<>>, <<"proj">>},
            WorkingDir : {<<"home", "dir">>},
            Networks : {ValNetworks},
            Services : [ValServices -> LoadedServices]] :
        /\ p.Services["db"].Platform = <<>>
        /\ p.Services["db"].Image
        /\ ~p.Services["db"].Build
        /\ p.Services["db"].Networks \subseteq ValNetworks}

\* what mplatform.Detect and ukarch.HostArchitecture answer
Hosts == [platform : {"qemu", "err"}, arch : {"x86_64", "err"}]

\* the part of the state Validate does not touch
ValidateOnly ==
    UNCHANGED <<ipVars, depVars, treeVars, manVars, initrdVars, createVars,
                startVars, xenVars>>

\* lines 43-82: the project as NewProjectFromComposeFile returns it
ValidateInit ==
    /\ valProject \in LoadedProjects
    /\ host \in Hosts
    /\ valPc = "loaded"
    /\ valErr = "nil"
    /\ IPIdle
    /\ DepIdle
    /\ TreeIdle
    /\ ManIdle
    /\ InitrdIdle
    /\ CreateIdle
    /\ StartIdle
    /\ XenIdle

\* lines 96-100: the last part of the working directory
ProjectName(p) ==
    IF p.Name = <<>> THEN <<p.WorkingDir[Len(p.WorkingDir)]>> ELSE p.Name

\* lines 103-121: the function given to WithServicesTransform
Transformed(projectName, name, service) ==
    [service EXCEPT
        !.ContainerName = IF @ = <<>> THEN projectName \o <<"-", name>> ELSE @,
        !.Platform = IF @ = <<>> THEN <<host.platform, "/", host.arch>> ELSE @]

\* lines 108-116: the transform fails when the host cannot be detected
TransformFails(service) ==
    service.Platform = <<>> /\ (host.platform = "err" \/ host.arch = "err")

\* lines 89-93: a service with neither image nor build context
ValidateRefuses ==
    /\ valPc = "loaded"
    /\ \E s \in ValServices :
          ~valProject.Services[s].Image /\ ~valProject.Services[s].Build
    /\ valErr' = "err"
    /\ valPc' = "returned"
    /\ UNCHANGED <<valProject, host>>
    /\ ValidateOnly

\* lines 95-126: the project is named, then the transform fails
ValidateFails ==
    /\ valPc = "loaded"
    /\ \A s \in ValServices :
          valProject.Services[s].Image \/ valProject.Services[s].Build
    /\ \E s \in ValServices : TransformFails(valProject.Services[s])
    /\ valProject' = [valProject EXCEPT !.Name = ProjectName(valProject)]
    /\ valErr' = "err"
    /\ valPc' = "returned"
    /\ UNCHANGED host
    /\ ValidateOnly

\* lines 95-128: the project is named and every service transformed
ValidateSucceeds ==
    /\ valPc = "loaded"
    /\ \A s \in ValServices :
          valProject.Services[s].Image \/ valProject.Services[s].Build
    /\ \A s \in ValServices : ~TransformFails(valProject.Services[s])
    /\ valProject' =
          [valProject EXCEPT
              !.Name = ProjectName(valProject),
              !.Services = [s \in ValServices |->
                               Transformed(ProjectName(valProject), s, @[s])]]
    /\ valPc' = "returned"
    /\ UNCHANGED <<host, valErr>>
    /\ ValidateOnly

ValidateNext ==
    \/ ValidateRefuses
    \/ ValidateFails
    \/ ValidateSucceeds

SpecValidate == ValidateInit /\ [][ValidateNext]_vars

(***************************************************************************)
(* The xenstore watcher (machine/xen/xenstore_client.go)                   *)
(*                                                                         *)
(* Watch starts a goroutine that reads packets from the connection and     *)
(* sends on the event channel; Close sends on closeSignal and then closes  *)
(* the connection.  Both channels are unbuffered: a send completes only    *)
(* together with a receive.  What the store sends and whether the holder   *)
(* of the event channel receives are the environment's choice.             *)
(***************************************************************************)
DomIDs == 1 .. MaxDomID

\* lines 79-80: the path and the token of the watcher of a domain
XsPath(dom) == <<"path", dom>>
Token(dom) == <<"kraftkit", dom>>

\* the packets the store may send: strs[0] is the path, strs[1] the token
XsPackets ==
    [op : {"WatchEvent", "Other"}, path : {XsPath(d) : d \in DomIDs},
     token : {Token(d) : d \in DomIDs}]

\* lines 168-172: the packet is a watch event with the watcher's token and path
IsWatchedEvent(packet) ==
    /\ packet.op = "WatchEvent"
    /\ Token(domID) = packet.token
    /\ XsPath(domID) = packet.path

\* the part of the state the watcher does not touch
XenOnly ==
    UNCHANGED <<ipVars, depVars, treeVars, manVars, initrdVars, createVars,
                startVars, valVars>>

\* lines 71-84: NewWatcher
XenInit ==
    /\ domID \in DomIDs
    /\ xsPc = "new"
    /\ goPc = "none"
    /\ connOpen = TRUE
    /\ closeSignalOpen = TRUE
    /\ packets = 0
    /\ events = 0
    /\ IPIdle
    /\ DepIdle
    /\ TreeIdle
    /\ ManIdle
    /\ InitrdIdle
    /\ CreateIdle
    /\ StartIdle
    /\ ValidateIdle

\* lines 142-179: Watch sends the watch request, starts the goroutine and
\* returns the event channel
Watch ==
    /\ xsPc = "new"
    /\ xsPc' = "watching"
    /\ goPc' = "select"
    /\ UNCHANGED <<domID, connOpen, closeSignalOpen, packets, events>>
    /\ XenOnly

\* lines 143-146: the watch request failed, no goroutine is started
WatchFails ==
    /\ xsPc = "new"
    /\ xsPc' = "failed"
    /\ UNCHANGED <<domID, goPc, connOpen, closeSignalOpen, packets, events>>
    /\ XenOnly

\* line 154: a value can be received from closeSignal only while Close is
\* blocked in its send
CloseSignalReady == xsPc = "closing"

\* lines 152-158: the select of the goroutine: when the close signal can be
\* received, it is received (which completes the send of Close), the channel
\* is closed and the goroutine returns; else the default case goes to Read
Select ==
    /\ goPc = "select"
    /\ IF CloseSignalReady
       THEN /\ goPc' = "exited"
            /\ xsPc' = "handed"
            /\ closeSignalOpen' = FALSE
       ELSE /\ goPc' = "read"
            /\ UNCHANGED <<xsPc, closeSignalOpen>>
    /\ UNCHANGED <<domID, connOpen, packets, events>>
    /\ XenOnly

\* lines 158-175: Read returns a packet the store sent; a watch event with
\* the watcher's token and path goes to the send on the event channel,
\* every other packet back to the select
Read ==
    /\ goPc = "read"
    /\ connOpen
    /\ packets < MaxPackets
    /\ packets' = packets + 1
    /\ \E packet \in XsPackets :
          goPc' = IF IsWatchedEvent(packet) THEN "send" ELSE "select"
    /\ UNCHANGED <<domID, xsPc, connOpen, closeSignalOpen, events>>
    /\ XenOnly

\* lines 158-163: Read returns an error, at once when the connection is
\* closed; the loop continues
ReadFails ==
    /\ goPc = "read"
    /\ packets < MaxPackets
    /\ packets' = packets + 1
    /\ goPc' = "select"
    /\ UNCHANGED <<domID, xsPc, connOpen, closeSignalOpen, events>>
    /\ XenOnly

\* line 173: the send on the event channel completes when the holder of the
\* channel receives
EventReceived ==
    /\ goPc = "send"
    /\ goPc' = "select"
    /\ events' = events + 1
    /\ UNCHANGED <<domID, xsPc, connOpen, closeSignalOpen, packets>>
    /\ XenOnly

\* lines 182-183: Close is called and starts its send on closeSignal
Close ==
    /\ xsPc = "watching"
    /\ xsPc' = "closing"
    /\ UNCHANGED <<domID, goPc, connOpen, closeSignalOpen, packets, events>>
    /\ XenOnly

\* line 184: after the send, Close closes the connection and returns
CloseConn ==
    /\ xsPc = "handed"
    /\ xsPc' = "closed"
    /\ connOpen' = FALSE
    /\ UNCHANGED <<domID, goPc, closeSignalOpen, packets, events>>
    /\ XenOnly

XenNext ==
    \/ Watch
    \/ WatchFails
    \/ Select
    \/ Read
    \/ ReadFails
    \/ EventReceived
    \/ Close
    \/ CloseConn

SpecXen == XenInit /\ [][XenNext]_vars

(***************************************************************************)
(* Properties of AssignIPs                                                 *)
(***************************************************************************)
\* the address the assignment pass gave service s on network n was assigned
Assigned(s, n) == ipv4Address[s][n] # NoText

\* the subnet the IPAM configuration of network n declares
DeclaredSubnet(n) == ParseCIDR(networks[n].subnet).net

\* the gateway of network n after defaulting, as an address
GatewayIP(n) ==
    IF networks[n].gateway = NoText
    THEN ParseCIDR(networks[n].subnet).ip
    ELSE ParseIP(networks[n].gateway)

\* an attachment the assignment pass has to give an address
NeedsAddress(s, n) == attach[s][n] = NoText /\ networks[n].ipam

\* C1: under every interleaving of the per-service goroutines, no two
\* addresses the pass assigned on one network are equal, and at most one
\* goroutine is between the test of an address and its insertion into the
\* reserved set, namely the one holding the mutex.
C1_NoDuplicateAssignment ==
    /\ \A n \in NetworkNames : \A s1, s2 \in ServiceNames :
          (s1 # s2 /\ Assigned(s1, n) /\ Assigned(s2, n))
             => ipv4Address[s1][n] # ipv4Address[s2][n]
    /\ \A s1, s2 \in ServiceNames :
          (ipPc[s1] = "locked" /\ ipPc[s2] = "locked") => s1 = s2
    /\ \A s \in ServiceNames : ipPc[s] = "locked" => mu = s

\* C1 witness: a service holds the lock for a network on which another
\* service has already been assigned an address, with a third one waiting.
C1_Witness ==
    \E n \in NetworkNames : \E s1, s2, s3 \in ServiceNames :
        /\ s1 # s2 /\ s2 # s3 /\ s1 # s3
        /\ Assigned(s1, n)
        /\ ipPc[s2] = "locked" /\ curNet[s2] = n
        /\ ipPc[s3] = "run" /\ n \in todo[s3] /\ NeedsAddress(s3, n)

\* C2: every address the pass assigned lies inside the subnet the network's
\* IPAM configuration declares.
C2_AssignedInsideSubnet ==
    \A n \in NetworkNames : \A s \in ServiceNames :
        Assigned(s, n) => Contains(DeclaredSubnet(n), ParseIP(ipv4Address[s][n]))

\* C3: the pass never assigns the gateway address or the network address of
\* a network to a service.
C3_GatewayAndNetworkNeverAssigned ==
    \A n \in NetworkNames : \A s \in ServiceNames :
        Assigned(s, n) =>
            /\ ParseIP(ipv4Address[s][n]) # GatewayIP(n)
            /\ ParseIP(ipv4Address[s][n]) # DeclaredSubnet(n).IP

\* C4: a scan that left the declared subnet is failed by the check that
\* follows it, and AssignIPs returns success only with every attachment
\* that lacked a static address holding an address of the subnet.
C4_ExhaustionReported ==
    /\ \A s \in ServiceNames :
          (ipPc[s] = "locked" /\ ~Contains(DeclaredSubnet(curNet[s]), scanIP[s]))
             => ~Contains([IP |-> scanNetIP[s],
                           Bits |-> networks[curNet[s]].subnet[2]], scanIP[s])
    /\ (phase = "returned" /\ ipErr = "nil") =>
          \A n \in NetworkNames : \A s \in ServiceNames :
              NeedsAddress(s, n) =>
                  /\ Assigned(s, n)
                  /\ Contains(DeclaredSubnet(n), ParseIP(ipv4Address[s][n]))

(***************************************************************************)
(* Properties of the dependency orderings                                  *)
(***************************************************************************)
\* the services of the returned sequence
Elements == {ordered[i] : i \in 1 .. Len(ordered)}

\* a comes before b in the returned sequence
Precedes(a, b) ==
    \E i, j \in 1 .. Len(ordered) : i < j /\ ordered[i] = a /\ ordered[j] = b

NoServiceTwice ==
    \A i, j \in 1 .. Len(ordered) : ordered[i] = ordered[j] => i = j

\* the services reachable from a set along required depends_on entries
RECURSIVE RequiredClosure(_)
RequiredClosure(set) ==
    LET more == set \cup {b \in ProjectServices : \E a \in set : Required(a, b)}
    IN  IF more = set THEN set ELSE RequiredClosure(more)

\* some service requires itself through a chain of required entries
RequiredCycleAmong(set) ==
    \E a \in set :
        a \in RequiredClosure({b \in set : Required(a, b)})

\* C5: in the sequence ServicesOrderedByDependencies returns, every service
\* comes after each of its required dependencies that is in the sequence.
C5_DependenciesFirst ==
    (depPc = "returned" /\ ~reversed) =>
        \A a, b \in Elements : Required(a, b) => Precedes(b, a)

\* C6: the sequence ServicesOrderedByDependencies returns holds no service
\* twice; with expand its elements are the closure of the services argument
\* under required dependencies, without expand they are the argument itself.
C6_ElementsOfOrdered ==
    (depPc = "returned" /\ ~reversed) =>
        /\ NoServiceTwice
        /\ expand => Elements = RequiredClosure(services)
        /\ ~expand => Elements = services

\* C6 witness: with expand, a required dependency outside the argument was
\* pulled in and an optional one outside it was not.
C6_Witness ==
    /\ depPc = "returned" /\ ~reversed /\ expand
    /\ Elements # services
    /\ \E a \in Elements, b \in ProjectServices \ Elements :
          dependsOn[<<a, b>>] = "optional"

\* C7: no order is returned for services whose required dependencies form a
\* cycle (the cycle is reported instead).
C7_CycleReported ==
    depPc = "returned" => ~RequiredCycleAmong(Elements)

\* C8: in the sequence ServicesReversedByDependencies returns, every service
\* comes after each included service that requires it, and no service is
\* there twice.
C8_DependantsFirst ==
    (depPc = "returned" /\ reversed) =>
        /\ \A a, b \in Elements : Required(a, b) => Precedes(a, b)
        /\ NoServiceTwice

\* without a cycle among the required entries both orders are as claimed
AcyclicOrdersHold ==
    (depPc = "returned" /\ ~RequiredCycleAmong(ProjectServices)) =>
        \A a, b \in Elements :
            Required(a, b) => IF reversed THEN Precedes(a, b) ELSE Precedes(b, a)

(***************************************************************************)
(* Properties of the process tree                                          *)
(***************************************************************************)
ChildrenOf(n) == {c \in Nodes : parentOf[c] = n}

HasChildren(n) == ChildrenOf(n) # {}

\* a step in which a command of node n begins, that is, starts the worker
WorkerStarts(n) == inflight'[n] > inflight[n]

\* a step in which node n is handed out by the ready computation
HandedOut(n) == queued'[n] > queued[n]

HasFailedChild(n) == \E c \in ChildrenOf(n) : status[c] \in {"Failed", "FailedChild"}

\* C9: the worker of a node with children starts only in a state in which
\* every child is Success and the node itself is Pending or RunningChild.
C9_ParentStartsAfterChildren ==
    [][\A n \in Nodes :
          (HasChildren(n) /\ WorkerStarts(n)) =>
              /\ \A c \in ChildrenOf(n) : status[c] = "Success"
              /\ status[n] \in {"Pending", "RunningChild"}]_vars

\* the ready computation itself hands a node with children out only in
\* such a state
ParentHandedOutAfterChildren ==
    [][\A n \in Nodes :
          (HasChildren(n) /\ HandedOut(n)) =>
              /\ \A c \in ChildrenOf(n) : status[c] = "Success"
              /\ status[n] \in {"Pending", "RunningChild"}]_vars

\* C10: once a child of a node is Failed or FailedChild it stays so, the
\* worker of the node does not start from then on, and when the exit of the
\* failed child has been handled the node is FailedChild.
C10_FailedChildPropagates ==
    [][\A n \in Nodes :
          HasFailedChild(n) =>
              /\ HasFailedChild(n)'
              /\ ~WorkerStarts(n)
              /\ (\A c \in Nodes : sending'[c] = 0) => status'[n] = "FailedChild"]_vars

\* the parts of C10 apart
FailedChildNotHandedOut ==
    [][\A n \in Nodes : HasFailedChild(n) => ~HandedOut(n)]_vars

FailedChildNotStarted ==
    [][\A n \in Nodes : HasFailedChild(n) => ~WorkerStarts(n)]_vars

FailedChildStays ==
    [][\A n \in Nodes : HasFailedChild(n) => HasFailedChild(n)']_vars

FailedChildMarked ==
    [][\A n \in Nodes :
          (HasFailedChild(n) /\ \A c \in Nodes : sending'[c] = 0)
             => status'[n] = "FailedChild"]_vars

\* the number of workers running (commands between line 327 and line 338)
RECURSIVE Total(_, _)
Total(f, set) ==
    IF set = {} THEN 0
    ELSE LET n == CHOOSE x \in set : TRUE
         IN  f[n] + Total(f, set \ {n})

Running == Total(inflight, Nodes)

\* C11: in serial mode at most one worker is running at any time, whatever
\* the shape of the tree, and no step of the ready computation hands out
\* more than one node.
C11_SerialOneWorker ==
    ~parallel => Running <= 1

\* the part of C11 about the ready computation: no step hands out two nodes
SerialHandsOutOne ==
    [][~parallel => Total(queued', Nodes) <= Total(queued, Nodes) + 1]_vars

\* C12: under fail-fast, once a worker has returned an error no further
\* worker is started.
C12_NoStartAfterFailure ==
    [][(failFast /\ treeErr # 0) => \A n \in Nodes : ~WorkerStarts(n)]_vars

\* the part of C12 the exit handler keeps: once quitting, nothing is handed out
NoHandOutWhenQuitting ==
    [][quitting => \A n \in Nodes : ~HandedOut(n)]_vars

\* C13: the error of the tree, which Start returns (line 232), is the error
\* of the first worker that failed: once set it is never replaced.
C13_FirstErrorKept ==
    [][treeErr # 0 => treeErr' = treeErr]_vars

(***************************************************************************)
(* Properties of the OCI manifest                                          *)
(***************************************************************************)
\* the last Save returned a descriptor and no error, and nothing was called since
SaveSucceeded == savePc = "returned" /\ ret.err = "nil"

\* a step that calls Save
SaveCalled == saves' = saves + 1

\* C14: a Save called right after a successful Save, with no mutation in
\* between, returns the same descriptor at once and stores nothing.
C14_SecondSaveCached ==
    [][(SaveSucceeded /\ SaveCalled) =>
          /\ savePc' = "returned"
          /\ ret' = ret
          /\ store' = store
          /\ writes' = <<>>]_vars

\* C14 witness: a second Save has returned, with no error and without a
\* write, the descriptor the first one made and stored for a manifest with
\* a layer.
C14_Witness ==
    /\ SaveSucceeded
    /\ saves >= 2
    /\ writes = <<>>
    /\ layers # <<>>
    /\ ret.desc = prevDesc
    /\ ret.desc[1].Digest \in store.manifests
    /\ ret.desc[1].Digest.Layers = DiffIDs

\* C15: after any mutating call, and until the next Save, the manifest is
\* not marked saved.
C15_MutationUnsaves ==
    savePc = "idle" => ~saved

\* the manifest a Save that rebuilds would make of the current state
Rebuilt == [Config |-> ConfigJson, Layers |-> DiffIDs, Annotations |-> Annotated]

\* C16: when the manifest was changed since the Save before, a successful
\* Save returns a descriptor with another digest, the digest of the manifest
\* rebuilt from the current state.
C16_SaveAfterMutationRebuilds ==
    (SaveSucceeded /\ prevDesc # Nil /\ prevDesc[1].Digest # Rebuilt) =>
        /\ ret.desc # prevDesc
        /\ ret.desc[1].Digest = Rebuilt

\* the layers of a sequence that carry the annotation, and the others
Carrying(seq, annotation) == SelectSeq(seq, LAMBDA l : l.annotation = annotation)
NotCarrying(seq, annotation) == SelectSeq(seq, LAMBDA l : l.annotation # annotation)

\* C17: at most one layer carries each well-known annotation; a SetKernel,
\* SetKernelDbg or SetInitrd call leaves as the only layer of its kind the
\* one it built, at the end of the list, and the other layers in their
\* order; no other call touches the layer of a kind.
C17_OneLayerPerKind ==
    [][\A k \in WellKnown :
          /\ Len(Carrying(layers', k)) <= 1
          /\ \A path \in Paths, built \in BOOLEAN :
                SetFile(k, path, built) =>
                   /\ Carrying(layers', k) =
                         IF built THEN <<NewLayerFromFile(path, k)>> ELSE <<>>
                   /\ built => layers'[Len(layers')] = NewLayerFromFile(path, k)
                   /\ NotCarrying(layers', k) = NotCarrying(layers, k)
          /\ (~ \E path \in Paths, built \in BOOLEAN : SetFile(k, path, built))
                => Carrying(layers', k) = Carrying(layers, k)]_vars

\* C17 witness: after three calls, the first of which built the layer of
\* the manifest saved then, the list is the initrd layer followed by a
\* kernel layer built from another file.
C17_Witness ==
    /\ ops = 3
    /\ mfst # Nil
    /\ layers = <<NewLayerFromFile("f1", AnnotationKernelInitrdPath),
                  NewLayerFromFile("f2", AnnotationKernelPath)>>
    /\ mfst[1].Layers = <<"f1">>

\* C18: after every successful Save, RootFS.DiffIDs of the configuration
\* is the sequence of the digests of the current layers.
C18_DiffIDsMatchLayers ==
    SaveSucceeded => config.RootFS = DiffIDs

\* the order the features are to be in: numbers by value, before the other
\* entries, which go by string comparison
Below(a, b) ==
    IF IsNumber(a) /\ IsNumber(b) THEN Atoi(a) < Atoi(b)
    ELSE IF IsNumber(a) THEN TRUE
    ELSE IF IsNumber(b) THEN FALSE
    ELSE StringRank(a) < StringRank(b)

\* C19: the OSFeatures of every configuration Save stored are in ascending
\* order, numbers by their value, and hold no entry twice.
C19_FeaturesSortedUnique ==
    \A c \in store.configs :
        \A i \in 1 .. Len(c.OSFeatures) - 1 :
            Below(c.OSFeatures[i], c.OSFeatures[i + 1])

\* the part of C19 that does not depend on the direction of the order
NoFeatureTwice ==
    \A c \in store.configs :
        \A i, j \in 1 .. Len(c.OSFeatures) :
            c.OSFeatures[i] = c.OSFeatures[j] => i = j

\* C20: Save returns an error exactly when the storage handler answered
\* one of its calls with an error other than AlreadyExists.
C20_AlreadyExistsIsSuccess ==
    (savePc = "returned" /\ saves > 0) =>
        (ret.err = "nil" <=> "error" \notin answers)

(***************************************************************************)
(* Properties of the Dockerfile initrd                                     *)
(***************************************************************************)
\* Entrypoint followed by Cmd
EntrypointCmd == image.Entrypoint \o image.Cmd

StartsWithShell(a) == Len(a) >= 2 /\ a[1] = "/bin/sh" /\ a[2] = "-c"

\* C21: after Build, Args() is Entrypoint followed by Cmd, without its first
\* two elements exactly when these are "/bin/sh" and "-c".
C21_ArgsAreEntrypointCmd ==
    buildPc = "returned" =>
        IF StartsWithShell(EntrypointCmd)
        THEN /\ Len(args) = Len(EntrypointCmd) - 2
             /\ \A i \in DOMAIN args : args[i] = EntrypointCmd[i + 2]
        ELSE args = EntrypointCmd

\* the same for the later version of Build alone
StrippedByLaterVersion == sourceFile = "part_006" => C21_ArgsAreEntrypointCmd

\* the hard-link group of a tar or CPIO entry: the regular file it names
GroupOf(e) == IF e.Typeflag = TypeLink THEN e.Linkname ELSE e.Name

GroupSize(g) == Cardinality({i \in DOMAIN tarFile : GroupOf(tarFile[i]) = g})

RECURSIVE DataOf(_, _)
DataOf(g, n) ==
    IF n = 0 THEN 0
    ELSE DataOf(g, n - 1) + (IF GroupOf(cpioOut[n]) = g THEN cpioOut[n].Data ELSE 0)

FileSize(g) ==
    LET i == CHOOSE i \in DOMAIN tarFile :
                 tarFile[i].Typeflag = TypeReg /\ tarFile[i].Name = g
    IN  tarFile[i].Size

Packed == buildPc = "returned" /\ sourceFile = "part_006"

SameInodeIffSameGroup ==
    Packed =>
        \A i, j \in DOMAIN cpioOut :
            (cpioOut[i].Inode = cpioOut[j].Inode)
                <=> (GroupOf(cpioOut[i]) = GroupOf(cpioOut[j]))

LinkCountIsGroupSize ==
    Packed =>
        \A i \in DOMAIN cpioOut : cpioOut[i].Links = GroupSize(GroupOf(cpioOut[i]))

LinkEntriesEmpty ==
    Packed =>
        \A i \in DOMAIN cpioOut :
            cpioOut[i].Typeflag = TypeLink =>
                cpioOut[i].Size = 0 /\ cpioOut[i].Data = 0

PayloadOnce ==
    Packed =>
        \A i \in DOMAIN cpioOut :
            DataOf(GroupOf(cpioOut[i]), Len(cpioOut)) = FileSize(GroupOf(cpioOut[i]))

\* C22: in the CPIO output two entries carry the same inode exactly when
\* they are in the same hard-link group of the tar, every entry carries the
\* size of its group as link count, hard-link entries have no data, and the
\* payload of a group is written once, in whatever order the tar lists the
\* regular file and its links.
C22_HardLinkGroupsKept ==
    /\ SameInodeIffSameGroup
    /\ LinkCountIsGroupSize
    /\ LinkEntriesEmpty
    /\ PayloadOnce

\* the tar lists a link of the group before its regular file
LinkFirst(g) ==
    \E i, j \in DOMAIN tarFile :
        /\ i < j
        /\ tarFile[i].Typeflag = TypeLink /\ tarFile[i].Linkname = g
        /\ tarFile[j].Typeflag = TypeReg /\ tarFile[j].Name = g

\* every entry of a group whose link comes first carries inode 0, whatever
\* rand.Int32 answered
LinkFirstInodeZero ==
    Packed =>
        \A i \in DOMAIN cpioOut :
            LinkFirst(GroupOf(cpioOut[i])) => cpioOut[i].Inode = 0

\* two groups whose links come first share an inode
LinkFirstGroupsShareInode ==
    /\ Packed
    /\ \E i, j \in DOMAIN cpioOut :
          /\ GroupOf(cpioOut[i]) # GroupOf(cpioOut[j])
          /\ LinkFirst(GroupOf(cpioOut[i]))
          /\ LinkFirst(GroupOf(cpioOut[j]))
          /\ cpioOut[i].Inode = cpioOut[j].Inode

(***************************************************************************)
(* Properties of compose create                                            *)
(***************************************************************************)
\* the loop over the services has reached service t
Reached(t) ==
    \E i \in DOMAIN crLog : crLog[i].call = "service" /\ crLog[i].name = t

\* service t comes after service s in the order of the run
After(s, t) ==
    \E i, j \in DOMAIN orderedServices :
        i < j /\ orderedServices[i] = s /\ orderedServices[j] = t

\* C23: when creating the machine of a service fails, every service after
\* it in the dependency order is still attempted in the same run.
C23_CreateFailureContinues ==
    (command = "create" /\ crPc = "returned") =>
        \A i \in DOMAIN crLog :
            (crLog[i].call = "create" /\ crLog[i].answer = "err") =>
                \A t \in CreateServices : After(crLog[i].name, t) => Reached(t)

\* C24: a build or packaging failure of a service stops that service only;
\* the services after it are still handled.
C24_BuildFailureContinues ==
    crPc = "returned" =>
        \A i \in DOMAIN crLog :
            (crLog[i].call \in {"build", "pkg"} /\ crLog[i].answer = "err") =>
                \A t \in CreateServices : After(crLog[i].name, t) => Reached(t)

\* C26: every network is created before every volume and every machine,
\* and the networks with an IPAM subnet before those without.
C26_NetworksFirst ==
    \A i, j \in DOMAIN crLog :
        /\ (crLog[i].call = "netcreate" /\ crLog[j].call \in {"volcreate", "create"})
              => i < j
        /\ (/\ crLog[i].call = "netcreate"
            /\ crLog[j].call = "netcreate"
            /\ project.networks[crLog[i].name] = "subnet"
            /\ project.networks[crLog[j].name] = "empty") => i < j

HasCall(call, answer) ==
    \E i \in DOMAIN crLog : crLog[i].call = call /\ crLog[i].answer = answer

C26_Witness ==
    /\ command = "create"
    /\ crPc = "returned"
    /\ \E i, j \in DOMAIN crLog :
          /\ crLog[i].call = "netcreate" /\ project.networks[crLog[i].name] = "subnet"
          /\ crLog[j].call = "netcreate" /\ project.networks[crLog[j].name] = "empty"
    /\ HasCall("volcreate", "ok")
    /\ HasCall("create", "ok")

\* the elements of a sequence
Listed(q) == {q[i] : i \in DOMAIN q}

\* the resources of the project that exist on the platform
ExistingMachines == {s \in CreateServices : live.machines[s] # NoMachine}
ExistingNetworks == {n \in live.networks : project.networks[n] # "external"}
ExistingVolumes == {v \in live.volumes : project.volumes[v] # "external"}

\* C27: the project state is written on every exit path of compose create,
\* and what is written lists the resources that exist at that point.
C27_StateWrittenOnExit ==
    (command = "create" /\ crPc = "returned") =>
        /\ recorded # <<>>
        /\ Listed(recorded[Len(recorded)].Machines) = ExistingMachines
        /\ Listed(recorded[Len(recorded)].Networks) = ExistingNetworks
        /\ Listed(recorded[Len(recorded)].Volumes) = ExistingVolumes

\* a volume exists that the state written on exit does not list
VolumeLeftOut ==
    /\ command = "create"
    /\ crPc = "returned"
    /\ recorded # <<>>
    /\ ExistingVolumes \ Listed(recorded[Len(recorded)].Volumes) # {}

\* C29: a service whose machine is listed running or created gets no
\* removal, catalog query, pull, build, packaging or creation; a machine
\* listed in another state is removed and off projectMachines before the
\* service is created again.
C29_ExistingMachineHandled ==
    command = "create" =>
        /\ \A i \in DOMAIN crLog :
              (/\ crLog[i].name \in CreateServices
               /\ listed.machines[crLog[i].name]
                     \in {MachineStateRunning, MachineStateCreated})
              => crLog[i].call = "service"
        /\ \A j \in DOMAIN crLog :
              (/\ crLog[j].call = "create"
               /\ listed.machines[crLog[j].name] \notin
                     {NoMachine, MachineStateRunning, MachineStateCreated})
              => \E i \in 1 .. (j - 1) :
                    /\ crLog[i].call = "remove"
                    /\ crLog[i].name = crLog[j].name
                    /\ crLog[i].answer = "ok"
        /\ (crPc = "create" /\ listed.machines[orderedServices[crPos]] # NoMachine)
              => /\ ~InSeq(projectMachines, orderedServices[crPos])
                 /\ live.machines[orderedServices[crPos]] = NoMachine

C29_Witness ==
    /\ command = "create"
    /\ crPc = "returned"
    /\ listed.machines["web"] = MachineStateRunning
    /\ Reached("web")
    /\ listed.machines["db"] = MachineStateExited
    /\ \E i, j \in DOMAIN crLog :
          /\ i < j
          /\ crLog[i] = Called("remove", "db", "ok")
          /\ crLog[j] = Called("create", "db", "ok")

\* the catalog queries, pulls, builds and packagings Run made for service s,
\* in order
RECURSIVE PackagingOf(_, _)
PackagingOf(s, n) ==
    IF n = 0 THEN <<>>
    ELSE PackagingOf(s, n - 1) \o
         (IF /\ crLog[n].name = s
             /\ crLog[n].call \in {"local", "remote", "pull", "build", "pkg"}
          THEN <<crLog[n]>> ELSE <<>>)

CreateCalled(s) ==
    \E i \in DOMAIN crLog : crLog[i].call = "create" /\ crLog[i].name = s

\* C30: for a service with an image the local catalog is asked first and
\* nothing more is done when it has the image; otherwise the remote catalog
\* is asked and the image pulled when found; only when neither has it is the
\* service built and then packaged; a service without an image is built.
C30_LocalRemoteBuildPackage ==
    command = "create" =>
        \A s \in CreateServices :
            LET q == PackagingOf(s, Len(crLog)) IN
            IF project.services[s].Image
            THEN /\ \A i \in DOMAIN q :
                       /\ q[i].call = "local" => i = 1
                       /\ q[i].call = "remote" =>
                              i = 2 /\ q[1] = Called("local", s, "missing")
                       /\ q[i].call = "pull" =>
                              i = 3 /\ q[2] = Called("remote", s, "found")
                       /\ q[i].call = "build" =>
                              i = 3 /\ q[2] = Called("remote", s, "missing")
                       /\ q[i].call = "pkg" =>
                              i = 4 /\ q[3] = Called("build", s, "ok")
                 /\ (q # <<>> /\ q[1].answer = "found") => Len(q) = 1
                 /\ CreateCalled(s) =>
                       \/ q = <<Called("local", s, "found")>>
                       \/ q = <<Called("local", s, "missing"),
                                Called("remote", s, "found"),
                                Called("pull", s, "ok")>>
                       \/ q = <<Called("local", s, "missing"),
                                Called("remote", s, "missing"),
                                Called("build", s, "ok"),
                                Called("pkg", s, "ok")>>
            ELSE /\ \A i \in DOMAIN q : q[i].call = "build" /\ i = 1
                 /\ CreateCalled(s) => q = <<Called("build", s, "ok")>>

C30_Witness ==
    /\ command = "create"
    /\ crPc = "returned"
    /\ project.services["web"].Image
    /\ PackagingOf("web", Len(crLog)) =
          <<Called("local", "web", "missing"), Called("remote", "web", "missing"),
            Called("build", "web", "ok"), Called("pkg", "web", "ok")>>
    /\ PackagingOf("db", Len(crLog)) =
          <<Called("local", "db", "missing"), Called("remote", "db", "found"),
            Called("pull", "db", "ok")>>
    /\ CreateCalled("web")
    /\ CreateCalled("db")

(***************************************************************************)
(* Properties of compose start                                             *)
(***************************************************************************)
\* C25: a machine is handed to the start command only when the machine of
\* every required dependency of its service is running, or was handed over
\* before it.
C25_DependenciesRunningFirst ==
    startPc = "returned" =>
        \A i \in DOMAIN started :
            \A d \in ProjectServices :
                Required(started[i], d) =>
                    \/ machines[d] = MachineStateRunning
                    \/ \E j \in 1 .. (i - 1) : started[j] = d

\* the machine of a service is started although a required dependency has
\* no machine at all
StartedWithoutDependency ==
    /\ startPc = "returned"
    /\ \E i \in DOMAIN started :
          \E d \in ProjectServices :
              Required(started[i], d) /\ machines[d] = NoMachine

(***************************************************************************)
(* Properties of Validate                                                  *)
(***************************************************************************)
Validated == valPc = "returned" /\ valErr = "nil"

ContainerNamed ==
    Validated =>
        \A s \in ValServices :
            /\ valProject.Services[s].ContainerName # <<>>
            /\ valProject.Services[s].ContainerName
                  \in {<<"given">>, valProject.Name \o <<"-", s>>}

PlatformSet ==
    Validated => \A s \in ValServices : valProject.Services[s].Platform # <<>>

AttachmentsResolve ==
    Validated =>
        \A s \in ValServices :
            valProject.Services[s].Networks \subseteq valProject.Networks

\* C28: after a successful Validate every service has a container name (the
\* project name, a dash and the service name when none was given) and a
\* platform, and every network a service names is a network of the project.
C28_ValidatedProject ==
    /\ ContainerNamed
    /\ PlatformSet
    /\ AttachmentsResolve

(***************************************************************************)
(* Properties of the process tree: timeout and single invocation           *)
(***************************************************************************)
\* C31: when a timeout is configured, the context a worker runs with is
\* cancelled once that worker has run for longer than the timeout.
C31_TimeoutCancelsTask ==
    \A n \in Nodes : (timeout > 0 /\ n \in overdue) => ItemCtxDone(n)

\* the other part of C31: the contexts of the tasks are cancelled together
\* only, namely when the inherited context is
ContextsCancelledTogether ==
    \A n, m \in Nodes : ItemCtxDone(n) = ItemCtxDone(m)

\* the commands of node n that exist: handed out, running or sending
Commands(n) == queued[n] + inflight[n] + sending[n]

\* C32: a node is handed out only once, as a node that has no command yet
\* and has not run, and its worker is invoked only while the node has not
\* run before, under every interleaving of the commands and the handlers.
C32_WorkerInvokedOnce ==
    [][\A n \in Nodes :
          /\ HandedOut(n) =>
                /\ Commands(n) = 0
                /\ queued'[n] = 1
                /\ status[n] \in {"Pending", "RunningChild"}
          /\ WorkerStarts(n) =>
                /\ inflight[n] = 0
                /\ status[n] \in {"Pending", "RunningChild"}]_vars

\* two workers of one node running at the same time
WorkerRunsTwice == \E n \in Nodes : inflight[n] = 2

(***************************************************************************)
(* Properties of the OCI manifest: order of the writes, and saved          *)
(***************************************************************************)
\* the place of a stored blob in the order of Save
WriteRank(w) == IF w = "manifest" THEN 0 ELSE IF w = "config" THEN 1 ELSE 2

\* the blobs stored by the running Save are in the order manifest, config,
\* layers, the manifest and the config at most once each
WritesOrdered ==
    \A i, j \in 1 .. Len(writes) :
        i < j => /\ WriteRank(writes[i]) <= WriteRank(writes[j])
                 /\ WriteRank(writes[i]) < 2 => writes[i] # writes[j]

\* a config blob is stored only when the handler holds the manifest, and a
\* layer blob only when it holds the manifest and the config blob
WritesAfterBoth ==
    /\ (\E i \in 1 .. Len(writes) : WriteRank(writes[i]) >= 1)
           => desc # Nil /\ desc[1].Digest \in store.manifests
    /\ (\E i \in 1 .. Len(writes) : WriteRank(writes[i]) = 2)
           => locals.configBlob \in store.configs

\* a step of Save in which SaveDescriptor answers an error other than
\* AlreadyExists for the manifest descriptor
ManifestRefused == savePc = "manifest" /\ answers' = {"error"}

\* C33: Save stores the manifest descriptor first, the config blob after it
\* and layer blobs only after both, and when saving the manifest descriptor
\* failed with an error other than AlreadyExists, Save returns without
\* storing a config or layer blob.
C33_ManifestConfigLayers ==
    /\ [](WritesOrdered /\ WritesAfterBoth)
    /\ [][ManifestRefused =>
             /\ savePc' = "returned"
             /\ ret'.err = "error"
             /\ writes' = <<>>
             /\ store' = store]_vars
    /\ [][(savePc = "returned" /\ writes' # writes) => writes' = <<>>]_vars

\* a Save that stored the manifest, the config blob and a layer blob
C33_Witness ==
    /\ Len(writes) >= 3
    /\ writes[1] = "manifest"
    /\ writes[2] = "config"
    /\ WriteRank(writes[3]) = 2

\* the layers with a local temporary path are all held by the handler
TmpLayersStored ==
    \A i \in 1 .. Len(layers) : layers[i].tmp => layers[i].digest \in store.blobs

\* the last Save returned an error, and nothing was called since
SaveFailed == savePc = "returned" /\ ret.err # "nil"

\* C34: after a Save that returned an error the manifest is not marked as
\* saved, and it is marked as saved only when the manifest, the config blob
\* and every layer with a local temporary path are stored.
C34_SavedOnlyWhenComplete ==
    /\ SaveFailed => ~saved
    /\ (saved /\ savePc = "returned") =>
          /\ desc # Nil /\ desc[1].Digest \in store.manifests
          /\ TmpLayersStored

\* the consequence: a Save that follows a failed one, with no mutation in
\* between, answers the descriptor without pushing the missing layer
FailedSaveIsRetried ==
    [][(SaveFailed /\ savePc' # savePc /\ ~TmpLayersStored) => savePc' = "manifest"]_vars

(***************************************************************************)
(* Properties of AssignIPs: the scan, the gateway and the static addresses *)
(***************************************************************************)
\* a step in which the assignment pass gives service s an address on n
Assigns(s, n) == ipv4Address'[s][n] # ipv4Address[s][n]

\* the addresses from the base of the declared subnet of n up to, not
\* including, address a
AddrsBelow(n, a) == {b \in Addrs : DeclaredSubnet(n).IP <= b /\ b < a}

\* the address is the first one, counting upward from the base of the
\* declared subnet, whose text is not in the reserved set of n
LowestFree(n, a) ==
    /\ DeclaredSubnet(n).IP <= a
    /\ String(a) \notin usedAddresses[n]
    /\ \A b \in AddrsBelow(n, a) : String(b) \in usedAddresses[n]

\* C35: every address the pass assigns is an address of the declared
\* subnet, and the lowest one, counting upward from the subnet base, that
\* is not in the reserved set of the network when it is assigned.
C35_LowestFreeOfSubnet ==
    [][\A s \in ServiceNames, n \in NetworkNames :
          Assigns(s, n) =>
              /\ Contains(DeclaredSubnet(n), ParseIP(ipv4Address'[s][n]))
              /\ LowestFree(n, ParseIP(ipv4Address'[s][n]))]_vars

\* the part of C35 that does not depend on the end of the subnet: an
\* assigned address that lies in the declared subnet is the lowest free one
LowestFreeInsideSubnet ==
    [][\A s \in ServiceNames, n \in NetworkNames :
          (Assigns(s, n) /\ Contains(DeclaredSubnet(n), ParseIP(ipv4Address'[s][n])))
             => LowestFree(n, ParseIP(ipv4Address'[s][n]))]_vars

\* C36: while a goroutine is between the scan and the check that follows it,
\* the subnet of the membership test has the base address of the declared
\* subnet (the mask is never written).
C36_SubnetUnchangedByScan ==
    \A s \in ServiceNames :
        ipPc[s] = "locked" => scanNetIP[s] = DeclaredSubnet(curNet[s]).IP

\* C37: when the validation of the networks succeeds, every non-external
\* network with IPAM configuration whose gateway was omitted has the base
\* address of its subnet as gateway; and AssignIPs fails with no address
\* assigned when a given gateway lies outside the subnet.
C37_GatewayDefaultsToBase ==
    /\ [][(phase = "start" /\ phase' = "parallel") =>
             \A n \in NetworkNames :
                 (Managed(networks[n]) /\ networks[n].gateway = NoText)
                    => networks'[n].gateway = String(DeclaredSubnet(n).IP)]_vars
    /\ []((\E n \in NetworkNames : Managed(networks[n]) /\ ~GatewayOK(networks[n]))
             => /\ phase \in {"start", "returned"}
                /\ phase = "returned" => ipErr = "GatewayNotInSubnet"
                /\ \A s \in ServiceNames, n \in NetworkNames : ~Assigned(s, n))

\* the second part of C37 alone
BadGatewayFailsEarly ==
    (\E n \in NetworkNames : Managed(networks[n]) /\ ~GatewayOK(networks[n]))
       => /\ phase \in {"start", "returned"}
          /\ phase = "returned" => ipErr = "GatewayNotInSubnet"
          /\ \A s \in ServiceNames, n \in NetworkNames : ~Assigned(s, n)

StaticTextsReserved ==
    /\ phase = "parallel" =>
          \A n \in NetworkNames : \A t \in ServiceNames :
              HasStatic(t, n) => attach[t][n] \in usedAddresses[n]
    /\ \A n \in NetworkNames : \A s, t \in ServiceNames :
          (Assigned(s, n) /\ HasStatic(t, n)) => ipv4Address[s][n] # attach[t][n]

\* C39: the reservation of the static addresses never faults: from the
\* start AssignIPs goes on to the assignment pass or returns an error.
C39_ReservationNeverFaults ==
    [][phase = "start" => phase' \in {"parallel", "returned"}]_vars

\* the same of the assignment pass
AssignmentNeverFaults ==
    [][phase = "parallel" => phase' \in {"parallel", "returned"}]_vars

(***************************************************************************)
(* Properties of the xenstore watcher                                      *)
(***************************************************************************)
\* the steps the watcher takes by itself: those of the goroutine and of
\* Close that wait neither for the store nor for a receiver of the events
WatcherStep == Select \/ CloseConn

\* C40: once Watch has started the goroutine, a Close that has not returned
\* can always go on without a packet arriving and without anyone receiving
\* from the event channel: it is never left blocked in the send of the close
\* signal with the goroutine blocked elsewhere.
C40_CloseNeverBlocks ==
    xsPc \in {"closing", "handed"} => ENABLED WatcherStep

\* Close blocked in its send while the goroutine is blocked in Read, with
\* nothing read yet
CloseBlockedOnRead == xsPc = "closing" /\ goPc = "read" /\ packets = 0

\* Close blocked in its send while the goroutine is blocked in the send on
\* the event channel
CloseBlockedOnEvent == xsPc = "closing" /\ goPc = "send"

====
